---- MODULE Spec2Model ----
(***************************************************************************)
(* Fraud-detection pipeline: Producer -> Buffer1 -> Consumer (Modelizer,   *)
(* Alarm) -> Buffer2 -> Logger -> Storage, joined on one cooperative       *)
(* single-threaded executor.  Every action is one segment of a task        *)
(* between two suspension points (empty-buffer yield, inter-iteration      *)
(* sleep, awaited port call), so every state is a state in which all       *)
(* tasks are suspended.                                                    *)
(***************************************************************************)
EXTENDS Integers, Sequences, FiniteSets, TLC

\* ------------------------------------------------------------------------
\* Bounds
\* ------------------------------------------------------------------------
N1Max == 2
N2Max == 2
N3Max == 2
MaxIter == 2
MaxTx == 2
SmallCapacity == 1
MaxBatch == 2
MaxOps == 3
MaxRead == 2
MaxReads == 2
MaxCalls == 2
MaxSwitches == 2
MaxSeed == 1

\* Stand-in for usize::MAX handed to InMemoryStorage::new in main.rs: a
\* capacity no run of the model reaches.
AmpleCapacity == 1000

VARIABLES
    cfg,              \* builder options and the ports wired in
    buf1,             \* ConcurrentBuffer  { data, closed } + RefCell borrow flag
    buf2,             \* ConcurrentBuffer2 { data, closed } + RefCell borrow flag
    producer,         \* Producer::run task
    consumer,         \* consumer_then_close task
    logger,           \* Logger::run task
    storage,          \* InMemoryStorage.inner
    current_version,  \* DemoModel.current_version
    nextId,           \* next fresh transaction identity
    cancelled,        \* the ctrl_c arm of select! has run
    hist,             \* history of the calls made so far
    target,           \* buffer driven directly by the two caller tasks (0: none)
    writer,           \* task calling write_batch / close on the target buffer
    reader,           \* task calling read_batch on the target buffer
    inferrer,         \* task calling Modelizer::infer
    switcher,         \* task calling Modelizer::switch_version
    twins,            \* two instances of one component, built from seeds
    builder           \* main's calls of the three configuration builders

vars == <<cfg, buf1, buf2, producer, consumer, logger, storage,
          current_version, nextId, cancelled, hist, target, writer, reader,
          inferrer, switcher, twins, builder>>

callers == <<target, writer, reader, inferrer, switcher, twins, builder>>

\* Option<u64>: None is {}, Some(n) is {n}.
None == {}
Some(n) == {n}

\* ------------------------------------------------------------------------
\* ConcurrentBuffer (Buffer1 / Buffer1Read)
\* ------------------------------------------------------------------------
ConcurrentBuffer_new == [data |-> <<>>, closed |-> FALSE, borrow |-> FALSE]

\* close(): borrow_mut, set the flag, borrow dropped at the end of the statement.
ConcurrentBuffer_close(inner) ==
    IF inner.borrow
    THEN [res |-> "Panic", buf |-> inner]
    ELSE [res |-> "Ok", buf |-> [inner EXCEPT !.closed = TRUE]]

\* Variant: the closed flag is not tested before the batch is appended.
ConcurrentBuffer_write_batch_after_close(inner, batch) ==
    IF inner.borrow
    THEN [res |-> "Panic", buf |-> inner]
    ELSE [res |-> "Ok", buf |-> [inner EXCEPT !.data = @ \o batch]]

\* write_batch: borrow_mut for the whole body; no await inside.
ConcurrentBuffer_write_batch(inner, batch) ==
    IF inner.borrow
    THEN [res |-> "Panic", buf |-> inner]
    ELSE IF inner.closed
         THEN [res |-> "Closed", buf |-> inner]
         ELSE [res |-> "Ok", buf |-> [inner EXCEPT !.data = @ \o batch]]

\* Variant: the closed flag is tested before the queue.
ConcurrentBuffer_read_batch_closed_first(inner, max) ==
    IF inner.borrow
    THEN [res |-> "Panic", batch |-> <<>>, buf |-> inner]
    ELSE IF inner.closed
         THEN [res |-> "Closed", batch |-> <<>>, buf |-> inner]
         ELSE IF inner.data # <<>>
              THEN LET count == IF max < Len(inner.data) THEN max ELSE Len(inner.data)
                   IN  [res   |-> "Ok",
                        batch |-> SubSeq(inner.data, 1, count),
                        buf   |-> [inner EXCEPT
                                     !.data = SubSeq(inner.data, count + 1,
                                                     Len(inner.data))]]
              ELSE [res |-> "Yield", batch |-> <<>>, buf |-> inner]

\* Variant: an empty closed buffer yields like an empty open one.
ConcurrentBuffer_read_batch_never_closed(inner, max) ==
    IF inner.borrow
    THEN [res |-> "Panic", batch |-> <<>>, buf |-> inner]
    ELSE IF inner.data # <<>>
         THEN LET count == IF max < Len(inner.data) THEN max ELSE Len(inner.data)
              IN  [res   |-> "Ok",
                   batch |-> SubSeq(inner.data, 1, count),
                   buf   |-> [inner EXCEPT
                                !.data = SubSeq(inner.data, count + 1, Len(inner.data))]]
         ELSE [res |-> "Yield", batch |-> <<>>, buf |-> inner]

\* Variant: an empty buffer signals Closed, open or not (as InMemoryBuffer does).
ConcurrentBuffer_read_batch_closed_on_empty(inner, max) ==
    IF inner.borrow
    THEN [res |-> "Panic", batch |-> <<>>, buf |-> inner]
    ELSE IF inner.data # <<>>
         THEN LET count == IF max < Len(inner.data) THEN max ELSE Len(inner.data)
              IN  [res   |-> "Ok",
                   batch |-> SubSeq(inner.data, 1, count),
                   buf   |-> [inner EXCEPT
                                !.data = SubSeq(inner.data, count + 1, Len(inner.data))]]
         ELSE [res |-> "Closed", batch |-> <<>>, buf |-> inner]

\* Variant: the borrow is not scoped and is still live at yield_now.
ConcurrentBuffer_read_batch_borrow_across_yield(inner, max) ==
    IF inner.borrow
    THEN [res |-> "Panic", batch |-> <<>>, buf |-> inner]
    ELSE IF inner.data # <<>>
         THEN LET count == IF max < Len(inner.data) THEN max ELSE Len(inner.data)
              IN  [res   |-> "Ok",
                   batch |-> SubSeq(inner.data, 1, count),
                   buf   |-> [inner EXCEPT
                                !.data = SubSeq(inner.data, count + 1, Len(inner.data)),
                                !.borrow = FALSE]]
         ELSE IF inner.closed
              THEN [res |-> "Closed", batch |-> <<>>,
                    buf |-> [inner EXCEPT !.borrow = FALSE]]
              ELSE [res |-> "Yield", batch |-> <<>>,
                    buf |-> [inner EXCEPT !.borrow = TRUE]]

\* Variant: the whole queue is drained, whatever max is.
ConcurrentBuffer_read_batch_drain_all(inner, max) ==
    IF inner.borrow
    THEN [res |-> "Panic", batch |-> <<>>, buf |-> inner]
    ELSE IF inner.data # <<>>
         THEN [res   |-> "Ok",
               batch |-> inner.data,
               buf   |-> [inner EXCEPT !.data = <<>>, !.borrow = FALSE]]
         ELSE IF inner.closed
              THEN [res |-> "Closed", batch |-> <<>>,
                    buf |-> [inner EXCEPT !.borrow = FALSE]]
              ELSE [res |-> "Yield", batch |-> <<>>,
                    buf |-> [inner EXCEPT !.borrow = FALSE]]

\* Variant: the batch is copied from the front of the queue, not drained.
ConcurrentBuffer_read_batch_peek(inner, max) ==
    IF inner.borrow
    THEN [res |-> "Panic", batch |-> <<>>, buf |-> inner]
    ELSE IF inner.data # <<>>
         THEN LET count == IF max < Len(inner.data) THEN max ELSE Len(inner.data)
              IN  [res   |-> "Ok",
                   batch |-> SubSeq(inner.data, 1, count),
                   buf   |-> [inner EXCEPT !.borrow = FALSE]]
         ELSE IF inner.closed
              THEN [res |-> "Closed", batch |-> <<>>,
                    buf |-> [inner EXCEPT !.borrow = FALSE]]
              ELSE [res |-> "Yield", batch |-> <<>>,
                    buf |-> [inner EXCEPT !.borrow = FALSE]]

\* One turn of the loop of read_batch: the scoped borrow, then either a
\* return ("Ok", "Closed") or yield_now ("Yield").  The borrow field of the
\* returned buffer is the state of the RefCell when the scope has ended.
ConcurrentBuffer_read_batch(inner, max) ==
    IF inner.borrow
    THEN [res |-> "Panic", batch |-> <<>>, buf |-> inner]
    ELSE IF inner.data # <<>>
         THEN LET count == IF max < Len(inner.data) THEN max ELSE Len(inner.data)
              IN  [res   |-> "Ok",
                   batch |-> SubSeq(inner.data, 1, count),
                   buf   |-> [inner EXCEPT
                                !.data = SubSeq(inner.data, count + 1, Len(inner.data)),
                                !.borrow = FALSE]]
         ELSE IF inner.closed
              THEN [res |-> "Closed", batch |-> <<>>,
                    buf |-> [inner EXCEPT !.borrow = FALSE]]
              ELSE [res |-> "Yield", batch |-> <<>>,
                    buf |-> [inner EXCEPT !.borrow = FALSE]]

\* ------------------------------------------------------------------------
\* FullBuffer (Buffer1 of the Producer's tests): refuses every batch
\* ------------------------------------------------------------------------
FullBuffer_new == [data |-> <<>>, capacity |-> 0]

FullBuffer_write_batch(inner, batch) == [res |-> "Full", buf |-> inner]

\* ------------------------------------------------------------------------
\* InMemoryBuffer (Buffer1 / Buffer1Read): a Vec, no closed flag, no close
\* ------------------------------------------------------------------------
InMemoryBuffer_new == [data |-> <<>>]

\* self.inner.borrow_mut().extend(batch); Ok(())
InMemoryBuffer_write_batch(inner, batch) ==
    [res |-> "Ok", buf |-> [inner EXCEPT !.data = @ \o batch]]

\* Variant: an empty store makes the reader wait, as ConcurrentBuffer does.
InMemoryBuffer_read_batch_yield_on_empty(inner, max) ==
    IF inner.data = <<>>
    THEN [res |-> "Yield", batch |-> <<>>, buf |-> inner]
    ELSE LET count == IF max < Len(inner.data) THEN max ELSE Len(inner.data)
         IN  [res   |-> "Ok",
              batch |-> SubSeq(inner.data, 1, count),
              buf   |-> [inner EXCEPT
                           !.data = SubSeq(inner.data, count + 1, Len(inner.data))]]

\* if inner.is_empty() { return Err(Closed) }; drain(..max.min(len))
InMemoryBuffer_read_batch(inner, max) ==
    IF inner.data = <<>>
    THEN [res |-> "Closed", batch |-> <<>>, buf |-> inner]
    ELSE LET count == IF max < Len(inner.data) THEN max ELSE Len(inner.data)
         IN  [res   |-> "Ok",
              batch |-> SubSeq(inner.data, 1, count),
              buf   |-> [inner EXCEPT
                           !.data = SubSeq(inner.data, count + 1, Len(inner.data))]]

\* The Buffer1 adapter behind `B: Buffer1` / `B1: Buffer1Read`.
IsFullBuffer(b1) == "capacity" \in DOMAIN b1

IsInMemoryBuffer(b1) == DOMAIN b1 = {"data"}

\* buffer.write_batch(batch) on whichever adapter the caller was given.
Buffer1_write_batch(b1, batch) ==
    IF IsFullBuffer(b1)
    THEN FullBuffer_write_batch(b1, batch)
    ELSE IF IsInMemoryBuffer(b1)
         THEN InMemoryBuffer_write_batch(b1, batch)
         ELSE ConcurrentBuffer_write_batch(b1, batch)

\* buf1.read_batch(max) on whichever adapter the caller was given.
Buffer1_read_batch(b1, max) ==
    IF IsInMemoryBuffer(b1)
    THEN InMemoryBuffer_read_batch(b1, max)
    ELSE ConcurrentBuffer_read_batch(b1, max)

\* ------------------------------------------------------------------------
\* ConcurrentBuffer2 (Buffer2 / Buffer2Read)
\* ------------------------------------------------------------------------
ConcurrentBuffer2_new == [data |-> <<>>, closed |-> FALSE, borrow |-> FALSE]

\* Variant: close flips the flag instead of setting it.
ConcurrentBuffer2_close_toggle(inner) ==
    IF inner.borrow
    THEN [res |-> "Panic", buf |-> inner]
    ELSE [res |-> "Ok", buf |-> [inner EXCEPT !.closed = ~@]]

ConcurrentBuffer2_close(inner) ==
    IF inner.borrow
    THEN [res |-> "Panic", buf |-> inner]
    ELSE [res |-> "Ok", buf |-> [inner EXCEPT !.closed = TRUE]]

\* Variant: the batch replaces the queue instead of extending it.
ConcurrentBuffer2_write_batch_overwrite(inner, batch) ==
    IF inner.borrow
    THEN [res |-> "Panic", buf |-> inner]
    ELSE IF inner.closed
         THEN [res |-> "Closed", buf |-> inner]
         ELSE [res |-> "Ok", buf |-> [inner EXCEPT !.data = batch]]

\* Variant: the records of the batch are queued last first.
ConcurrentBuffer2_write_batch_reversed(inner, batch) ==
    IF inner.borrow
    THEN [res |-> "Panic", buf |-> inner]
    ELSE IF inner.closed
         THEN [res |-> "Closed", buf |-> inner]
         ELSE [res |-> "Ok",
               buf |-> [inner EXCEPT
                          !.data = @ \o [i \in 1..Len(batch) |->
                                            batch[Len(batch) + 1 - i]]]]

ConcurrentBuffer2_write_batch(inner, batch) ==
    IF inner.borrow
    THEN [res |-> "Panic", buf |-> inner]
    ELSE IF inner.closed
         THEN [res |-> "Closed", buf |-> inner]
         ELSE [res |-> "Ok", buf |-> [inner EXCEPT !.data = @ \o batch]]

\* Variant: the batch is drained from the back of the queue.
ConcurrentBuffer2_read_batch_drain_back(inner, max) ==
    IF inner.borrow
    THEN [res |-> "Panic", batch |-> <<>>, buf |-> inner]
    ELSE IF inner.data # <<>>
         THEN LET count == IF max < Len(inner.data) THEN max ELSE Len(inner.data)
                  keep == Len(inner.data) - count
              IN  [res   |-> "Ok",
                   batch |-> SubSeq(inner.data, keep + 1, Len(inner.data)),
                   buf   |-> [inner EXCEPT !.data = SubSeq(inner.data, 1, keep)]]
         ELSE IF inner.closed
              THEN [res |-> "Closed", batch |-> <<>>, buf |-> inner]
              ELSE [res |-> "Yield", batch |-> <<>>, buf |-> inner]

\* Variant: an empty buffer signals Closed, open or not (as InMemoryBuffer2 would).
ConcurrentBuffer2_read_batch_closed_on_empty(inner, max) ==
    IF inner.borrow
    THEN [res |-> "Panic", batch |-> <<>>, buf |-> inner]
    ELSE IF inner.data # <<>>
         THEN LET count == IF max < Len(inner.data) THEN max ELSE Len(inner.data)
              IN  [res   |-> "Ok",
                   batch |-> SubSeq(inner.data, 1, count),
                   buf   |-> [inner EXCEPT
                                !.data = SubSeq(inner.data, count + 1, Len(inner.data))]]
         ELSE [res |-> "Closed", batch |-> <<>>, buf |-> inner]

ConcurrentBuffer2_read_batch(inner, max) ==
    IF inner.borrow
    THEN [res |-> "Panic", batch |-> <<>>, buf |-> inner]
    ELSE IF inner.data # <<>>
         THEN LET count == IF max < Len(inner.data) THEN max ELSE Len(inner.data)
              IN  [res   |-> "Ok",
                   batch |-> SubSeq(inner.data, 1, count),
                   buf   |-> [inner EXCEPT
                                !.data = SubSeq(inner.data, count + 1, Len(inner.data)),
                                !.borrow = FALSE]]
         ELSE IF inner.closed
              THEN [res |-> "Closed", batch |-> <<>>,
                    buf |-> [inner EXCEPT !.borrow = FALSE]]
              ELSE [res |-> "Yield", batch |-> <<>>,
                    buf |-> [inner EXCEPT !.borrow = FALSE]]

\* ------------------------------------------------------------------------
\* InMemoryBuffer2 (Buffer2): bounded, never closed
\* ------------------------------------------------------------------------
InMemoryBuffer2_new(capacity) == [data |-> <<>>, capacity |-> capacity]

InMemoryBuffer2_write_batch(inner, batch) ==
    IF Len(inner.data) + Len(batch) > inner.capacity
    THEN [res |-> "Full", capacity |-> inner.capacity, buf |-> inner]
    ELSE [res |-> "Ok", buf |-> [inner EXCEPT !.data = @ \o batch]]

\* The Buffer2 adapter behind `B2: Buffer2`.
IsInMemoryBuffer2(b2) == "capacity" \in DOMAIN b2

\* buf2.write_batch(batch) on whichever adapter the caller was given.
Buffer2_write_batch(b2, batch) ==
    IF IsInMemoryBuffer2(b2)
    THEN InMemoryBuffer2_write_batch(b2, batch)
    ELSE ConcurrentBuffer2_write_batch(b2, batch)

\* ------------------------------------------------------------------------
\* InMemoryStorage (Storage)
\* ------------------------------------------------------------------------
\* Variant: the items that still fit are stored before the error is returned.
InMemoryStorage_write_batch_fill(inner, capacity, batch) ==
    IF Len(inner) + Len(batch) > capacity
    THEN [res |-> "CapacityExceeded", capacity |-> capacity,
          inner |-> inner \o SubSeq(batch, 1, capacity - Len(inner))]
    ELSE [res |-> "Ok", inner |-> inner \o batch]

InMemoryStorage_write_batch(inner, capacity, batch) ==
    IF Len(inner) + Len(batch) > capacity
    THEN [res |-> "CapacityExceeded", capacity |-> capacity, inner |-> inner]
    ELSE [res |-> "Ok", inner |-> inner \o batch]

\* ------------------------------------------------------------------------
\* SqliteStorage (Storage): one INSERT OR REPLACE per item, keyed by the
\* transaction id; any sqlx error is mapped to Unavailable
\* ------------------------------------------------------------------------
\* INSERT OR REPLACE of one row.
SqliteStorage_insert_or_replace(rows, pt) ==
    LET same == {i \in 1..Len(rows) :
                   rows[i].inferred_transaction.transaction.id
                     = pt.inferred_transaction.transaction.id}
    IN  IF same = {} THEN Append(rows, pt)
        ELSE [i \in 1..Len(rows) |-> IF i \in same THEN pt ELSE rows[i]]

RECURSIVE SqliteStorage_insert_all(_, _)
SqliteStorage_insert_all(rows, batch) ==
    IF batch = <<>> THEN rows
    ELSE SqliteStorage_insert_all(SqliteStorage_insert_or_replace(rows, Head(batch)),
                                  Tail(batch))

\* write_batch where the execute of item number `fail` returns an error
\* (fail = 0: none does): the items before it stay inserted.
SqliteStorage_write_batch(rows, batch, fail) ==
    IF fail = 0
    THEN [res |-> "Ok", inner |-> SqliteStorage_insert_all(rows, batch)]
    ELSE [res |-> "Unavailable",
          inner |-> SqliteStorage_insert_all(rows, SubSeq(batch, 1, fail - 1))]

\* ------------------------------------------------------------------------
\* The Storage adapter behind `S: Storage`
\* ------------------------------------------------------------------------
\* The items of a batch at which the adapter's write_batch can fail midway.
FailPoints(kind, batch) ==
    IF kind = "SqliteStorage" THEN 0..Len(batch) ELSE {0}

Storage_write_batch(kind, inner, capacity, batch, fail) ==
    IF kind = "SqliteStorage"
    THEN SqliteStorage_write_batch(inner, batch, fail)
    ELSE InMemoryStorage_write_batch(inner, capacity, batch)

\* ------------------------------------------------------------------------
\* DemoModel (Model)
\* ------------------------------------------------------------------------
\* fraud_rate and the roll, both in hundredths.
Rolls == {3, 50}

\* Variant: the rate of the latest version is used for both versions.
fraud_rate_latest(version) == 4

fraud_rate(version) == IF version = "N" THEN 4 ELSE 3

classify(version, roll) == roll < fraud_rate(version)

name == "DEMO"

active_version(version) == IF version = "N" THEN "4" ELSE "3"

\* Variant: the requested version is not stored.
switch_version_ignored(current, version) == current

\* *self.current_version.borrow_mut() = version
switch_version(current, version) == version

ModelVersion == {"N", "NMinus1"}

\* ------------------------------------------------------------------------
\* Modelizer<M: Model>
\* ------------------------------------------------------------------------
InferredTransaction(tx, fraud, model_name, model_version) ==
    [transaction |-> tx, predicted_fraud |-> fraud,
     model_name |-> model_name, model_version |-> model_version]

\* Variant: the version is read from the model for each record.
infer_record_live(tx, predicted_fraud, model_name, model_version, model) ==
    InferredTransaction(tx, predicted_fraud, model_name, active_version(model))

\* The record infer builds for tx: model_name and model_version are the
\* locals read before the loop, model is the state of self.model at the push.
infer_record(tx, predicted_fraud, model_name, model_version, model) ==
    InferredTransaction(tx, predicted_fraud, model_name, model_version)

\* Variant: the record is put in front of the earlier ones.
push_front(results, rec) == <<rec>> \o results

\* results.push(rec)
push(results, rec) == Append(results, rec)

\* ------------------------------------------------------------------------
\* Producer
\* ------------------------------------------------------------------------
\* A generated transaction is a fresh object; its random id, amount and last
\* name are carried unchanged through the pipeline and stand behind `id`.
Transaction(n) == [id |-> n]

generate_batch(size, first) == [i \in 1..size |-> Transaction(first + i - 1)]

\* `if let Some(max) = self.config.iterations && count >= max`
LimitReached(iterations, count) == \E max \in iterations : count >= max


\* ------------------------------------------------------------------------
\* StdRng as the components use it.  The generator is a deterministic
\* function of its state; a small congruential one stands for it.
\* ------------------------------------------------------------------------
RngModulus == 8

RngStates == 0..(RngModulus - 1)

Seeds == {None} \cup {Some(n) : n \in 0..MaxSeed}

StdRng_seed_from_u64(seed) == (3 * seed + 1) % RngModulus

\* The state after one more draw.
StdRng_next(state) == (5 * state + 3) % RngModulus

\* Variant: the generator is seeded from the OS whatever the configuration.
new_rng_from_os(seed, os) == os

\* match config.seed { Some(seed) => StdRng::seed_from_u64(seed),
\*                     None => StdRng::from_os_rng() }
\* `os` is what the OS entropy source gives.
new_rng(seed, os) ==
    IF seed = None THEN os
    ELSE StdRng_seed_from_u64(CHOOSE n \in seed : TRUE)

\* rng.random_range(lo..=hi)
random_range(rng, lo, hi) ==
    LET next == StdRng_next(rng)
    IN  [value |-> lo + (next % (hi - lo + 1)), rng |-> next]

\* rng.random::<f64>(), in hundredths.
random(rng) ==
    LET next == StdRng_next(rng)
    IN  [value |-> CASE next % 4 = 0 -> 0
                     [] next % 4 = 1 -> 3
                     [] OTHER -> 50,
         rng |-> next]

LAST_NAMES == <<"Smith", "Johnson">>

MaxAmountCents == 3

\* The loop of generate_batch: per transaction, 16 random bytes for the id,
\* an amount in cents and an index into LAST_NAMES, all drawn from rng.
RECURSIVE generate_transactions(_, _)
generate_transactions(rng, size) ==
    IF size = 0 THEN [batch |-> <<>>, rng |-> rng]
    ELSE LET id == StdRng_next(rng)
             amount == random_range(id, 1, MaxAmountCents)
             last_name_idx == random_range(amount.rng, 0, Len(LAST_NAMES) - 1)
             rest == generate_transactions(last_name_idx.rng, size - 1)
         IN  [batch |-> <<[id |-> id, amount |-> amount.value,
                           last_name |-> LAST_NAMES[last_name_idx.value + 1]]>>
                        \o rest.batch,
              rng |-> rest.rng]

\* Producer::generate_batch with its generator: the size, then the transactions.
generate_batch_seeded(rng, n1_max) ==
    LET size == random_range(rng, 1, n1_max)
    IN  generate_transactions(size.rng, size.value)

\* DemoModel::classify with its generator.
classify_seeded(rng, version) ==
    LET roll == random(rng)
    IN  [value |-> classify(version, roll.value), rng |-> roll.rng]

\* ------------------------------------------------------------------------
\* Wiring (main.rs, main_sqlite.rs, bench_main.rs)
\* ------------------------------------------------------------------------
IterOptions == {None} \cup {Some(n) : n \in 0..MaxIter}

Configs ==
    [p_iterations : IterOptions,
     c_iterations : {None, Some(1)},
     l_iterations : {None, Some(1)},
     capacity     : {SmallCapacity, AmpleCapacity},
     storage      : {"InMemoryStorage"}]

NoHist ==
    [written1 |-> <<>>, read1 |-> <<>>, written2 |-> <<>>, read2 |-> <<>>,
     closed_seen |-> {},      \* stages whose read_batch returned Closed
     failed |-> FALSE,        \* a Model, Buffer2 or Storage call has failed
     alarms |-> <<>>]         \* ids handed to alarm.trigger

Producer_new == [pc |-> "produce_once", count |-> 0, result |-> "None"]

Consumer_new ==
    [pc |-> "consume_once", count |-> 0, n2 |-> 0, batch |-> <<>>,
     model_name |-> "", model_version |-> "", results |-> <<>>,
     alarm_idx |-> 0, alarm_errors |-> <<>>,
     triggered |-> <<>>,      \* alarm.trigger calls of this consume_once
     infer_calls |-> 0,       \* modelizer.infer calls of this consume_once
     result |-> "None"]

Logger_new ==
    [pc |-> "log_once", count |-> 0, n3 |-> 0, pending |-> <<>>, result |-> "None"]

\* No infer call made yet; `last` is the call that returned last.
NoCall ==
    [res |-> "None", batch |-> <<>>, output |-> <<>>, model_name |-> "",
     model_version |-> "", start |-> "N", trace |-> <<>>]

Inferrer_new ==
    [pc |-> "idle", calls |-> 0, batch |-> <<>>, model_name |-> "",
     model_version |-> "", results |-> <<>>, start |-> "N", trace |-> <<>>,
     last |-> NoCall, returned |-> <<>>]

\* requested: the version of the last switch_version that returned (N at startup).
Switcher_new == [calls |-> 0, requested |-> "N"]

\* No pair of seeded instances is being compared.
NoTwins == <<>>

\* The configurations are taken as built.
NoBuilder == <<>>

Init ==
    /\ cfg \in Configs
    /\ buf1 = ConcurrentBuffer_new
    /\ buf2 = ConcurrentBuffer2_new
    /\ producer = Producer_new
    /\ consumer = Consumer_new
    /\ logger = Logger_new
    /\ storage = <<>>
    /\ current_version = "N"
    /\ nextId = 1
    /\ cancelled = FALSE
    /\ hist = NoHist
    /\ target = 0
    /\ writer = [script |-> <<>>, idx |-> 1, results |-> <<>>]
    /\ reader = [script |-> <<>>, idx |-> 1, pc |-> "idle", results |-> <<>>]
    /\ inferrer = Inferrer_new
    /\ switcher = Switcher_new
    /\ twins = NoTwins
    /\ builder = NoBuilder

\* A RefCell double borrow panics and unwinds main.
Panicked == "panic" \in {producer.pc, consumer.pc, logger.pc}

\* The pipeline future is still being polled.
Polled == ~cancelled /\ ~Panicked

\* tokio::join! has returned (p, c, l).
Joined == producer.pc = "done" /\ consumer.pc = "done" /\ logger.pc = "done"

\* Variant: the results are looked at from the Logger upwards.
PipelineResult_downstream_first ==
    IF logger.result # "Ok" THEN logger.result
    ELSE IF consumer.result # "Ok" THEN consumer.result
    ELSE producer.result

\* p.and(c).and(l) / p?; c?; l?;
PipelineResult ==
    IF producer.result # "Ok" THEN producer.result
    ELSE IF consumer.result # "Ok" THEN consumer.result
    ELSE logger.result

\* ------------------------------------------------------------------------
\* Producer::run, followed by buffer1.close()
\* ------------------------------------------------------------------------
\* Variant: every buffer error ends the loop with Ok.
Producer_run_match_any_error(error) == "Ok"

\* The match of run on Err(e) from produce_once: what run returns.
\*   Err(ProducerError::Buffer { source: BufferError::Closed }) => return Ok(())
\*   Err(e) => return Err(e)
Producer_run_match(error) ==
    IF error = "Closed" THEN "Ok"
    ELSE CASE error = "Full" -> "Err_Buffer_Full"

\* run has returned `result`; the wiring closes Buffer1 in the same poll.
\* A FullBuffer or an InMemoryBuffer has no close: run is then called on its own.
ProducerReturn(result, count, b1) ==
    LET c == IF IsFullBuffer(b1) \/ IsInMemoryBuffer(b1)
             THEN [res |-> "Ok", buf |-> b1]
             ELSE ConcurrentBuffer_close(b1)
    IN  /\ buf1' = c.buf
        /\ producer' = [producer EXCEPT
                          !.pc = IF c.res = "Panic" THEN "panic" ELSE "done",
                          !.count = count,
                          !.result = result]

\* Runs are followed while the Producer has written at most MaxTx
\* transactions.  A capped Producer draws sizes that leave one transaction
\* for each iteration still to come.  An uncapped Producer never stops by
\* itself: beyond MaxTx its loop is followed once a stage downstream has
\* returned.  After Consumer.run has returned, what it appends to Buffer1 is
\* never read again and is left out of the state.  After Logger.run has
\* returned, what it writes still goes through the Consumer, as transactions
\* that are not told apart (Beyond), at most N1Max of them in Buffer1 at a
\* time; they are not recorded in hist, and Buffer2, which is never read
\* again, does not keep them.
Beyond == Transaction(0)

IsFollowed(tx) == tx # Beyond

Followed(batch) == SelectSeq(batch, IsFollowed)

FollowedInferred(inferred) ==
    SelectSeq(inferred, LAMBDA rec : IsFollowed(rec.transaction))

StillToCome(iterations, count) ==
    IF iterations = None THEN 0
    ELSE LET max == CHOOSE m \in iterations : TRUE
         IN  IF max > count + 1 THEN max - (count + 1) ELSE 0

ProducerStep ==
    /\ Polled
    /\ producer.pc = "produce_once"
    /\ \E size \in 1..N1Max :
         LET followed == Len(hist.written1) + size
                           + StillToCome(cfg.p_iterations, producer.count) <= MaxTx
             batch == IF followed THEN generate_batch(size, nextId)
                      ELSE [i \in 1..size |-> Beyond]
             w == Buffer1_write_batch(buf1, batch)
         IN  /\ \/ followed
                \/ cfg.p_iterations = None /\ consumer.pc = "done"
                \/ /\ cfg.p_iterations = None /\ logger.pc = "done"
                   /\ Len(buf1.data) + size <= N1Max
             /\ CASE w.res = "Ok" /\ followed ->
                       /\ nextId' = nextId + size
                       /\ hist' = [hist EXCEPT !.written1 = @ \o batch]
                       /\ IF LimitReached(cfg.p_iterations, producer.count + 1)
                          THEN ProducerReturn("Ok", producer.count + 1, w.buf)
                          ELSE /\ buf1' = w.buf
                               /\ producer' = [producer EXCEPT
                                                 !.pc = "sleep", !.count = @ + 1]
                  [] w.res = "Ok" /\ ~followed ->
                       /\ buf1' = IF consumer.pc = "done" THEN buf1 ELSE w.buf
                       /\ producer' = [producer EXCEPT !.pc = "sleep"]
                       /\ UNCHANGED <<nextId, hist>>
                  [] w.res \in {"Closed", "Full"} ->
                       /\ ProducerReturn(Producer_run_match(w.res), producer.count, w.buf)
                       /\ UNCHANGED <<nextId, hist>>
                  [] w.res = "Panic" ->
                       /\ producer' = [producer EXCEPT !.pc = "panic"]
                       /\ UNCHANGED <<buf1, nextId, hist>>
    /\ UNCHANGED <<callers, cfg, buf2, consumer, logger, storage, current_version,
                   cancelled>>

\* tokio::time::sleep(poll_interval1) has elapsed.
ProducerWake ==
    /\ Polled
    /\ producer.pc = "sleep"
    /\ producer' = [producer EXCEPT !.pc = "produce_once"]
    /\ UNCHANGED <<callers, cfg, buf1, buf2, consumer, logger, storage, current_version,
                   nextId, cancelled, hist>>


\* ------------------------------------------------------------------------
\* Consumer::run / consume_once, followed by buffer2.close()
\* ------------------------------------------------------------------------
\* Variant: what infer had classified so far is written to Buffer2 on the
\* way out.
ConsumerReturn_flush_partial(result, count, b2) ==
    LET flushed == IF IsInMemoryBuffer2(b2) THEN b2
                   ELSE [b2 EXCEPT !.data = @ \o consumer.results]
        c == IF IsInMemoryBuffer2(b2) THEN [res |-> "Ok", buf |-> b2]
             ELSE ConcurrentBuffer2_close(flushed)
    IN  /\ buf2' = c.buf
        /\ consumer' = [Consumer_new EXCEPT
                          !.pc = IF c.res = "Panic" THEN "panic" ELSE "done",
                          !.count = count,
                          !.result = result]

\* Variant: Buffer2 is closed only when run has returned Ok.
ConsumerReturn_close_on_ok(result, count, b2) ==
    LET c == IF IsInMemoryBuffer2(b2) \/ result # "Ok"
             THEN [res |-> "Ok", buf |-> b2]
             ELSE ConcurrentBuffer2_close(b2)
    IN  /\ buf2' = c.buf
        /\ consumer' = [Consumer_new EXCEPT
                          !.pc = IF c.res = "Panic" THEN "panic" ELSE "done",
                          !.count = count,
                          !.result = result]

\* run has returned `result`; consumer_then_close closes Buffer2 in the same
\* poll.  An InMemoryBuffer2 has no close: run is then called on its own.
ConsumerReturn(result, count, b2) ==
    LET c == IF IsInMemoryBuffer2(b2) THEN [res |-> "Ok", buf |-> b2]
             ELSE ConcurrentBuffer2_close(b2)
    IN  /\ buf2' = c.buf
        /\ consumer' = [Consumer_new EXCEPT
                          !.pc = IF c.res = "Panic" THEN "panic" ELSE "done",
                          !.count = count,
                          !.result = result]

\* Variant: Closed ends the loop with Ok whichever port reported it.
run_match_any_closed(port, error) ==
    IF error = "Closed" THEN "Ok"
    ELSE CASE port = "Read"      -> "Err_Read"
           [] port = "Inference" -> "Err_Inference"
           [] port = "Write"     -> "Err_Write"

\* The match of run on Err(e) from consume_once: what run returns.
\*   Err(ConsumerError::Read(BufferError::Closed)) => return Ok(())
\*   Err(e) => return Err(e)
run_match(port, error) ==
    IF port = "Read" /\ error = "Closed" THEN "Ok"
    ELSE CASE port = "Read"      -> "Err_Read"
           [] port = "Inference" -> "Err_Inference"
           [] port = "Write"     -> "Err_Write"

\* Variant: only the first fraudulent record of a batch is looked for.
NextFraud_first_only(results, from) ==
    LET S == {i \in from..Len(results) : results[i].predicted_fraud}
    IN  IF S = {} \/ from > 1 THEN 0 ELSE CHOOSE i \in S : \A j \in S : i <= j

\* Index of the first record at or after `from` with predicted_fraud, 0 if none.
NextFraud(results, from) ==
    LET S == {i \in from..Len(results) : results[i].predicted_fraud}
    IN  IF S = {} THEN 0 ELSE CHOOSE i \in S : \A j \in S : i <= j

\* buf1.read_batch(n2): one turn of its loop; on data, infer starts and
\* snapshots model.name() and model.active_version().
ConsumerPoll(n2) ==
    LET r == Buffer1_read_batch(buf1, n2)
    IN  CASE r.res = "Ok" ->
               /\ buf1' = r.buf
               /\ consumer' = [consumer EXCEPT
                                 !.pc = "classify", !.n2 = 0, !.batch = r.batch,
                                 !.infer_calls = @ + 1,
                                 !.model_name = name,
                                 !.model_version = active_version(current_version),
                                 !.results = <<>>, !.alarm_idx = 0,
                                 !.alarm_errors = <<>>]
               /\ hist' = [hist EXCEPT !.read1 = @ \o Followed(r.batch)]
               /\ UNCHANGED buf2
          [] r.res = "Closed" ->
               /\ buf1' = r.buf
               /\ ConsumerReturn(run_match("Read", r.res), consumer.count, buf2)
               /\ hist' = [hist EXCEPT !.closed_seen = @ \cup {"consumer"}]
          [] r.res = "Yield" ->
               /\ buf1' = r.buf
               /\ consumer' = [consumer EXCEPT !.pc = "yield", !.n2 = n2]
               /\ UNCHANGED <<buf2, hist>>
          [] r.res = "Panic" ->
               /\ consumer' = [consumer EXCEPT !.pc = "panic"]
               /\ UNCHANGED <<buf1, buf2, hist>>

\* consume_once starts: draw n2, first turn of read_batch.
ConsumerRead ==
    /\ Polled
    /\ consumer.pc = "consume_once"
    /\ \E n2 \in 1..N2Max : ConsumerPoll(n2)
    /\ UNCHANGED <<callers, cfg, producer, logger, storage, current_version, nextId, cancelled>>

\* read_batch resumes after yield_now.
ConsumerRetry ==
    /\ Polled
    /\ consumer.pc = "yield"
    /\ ConsumerPoll(consumer.n2)
    /\ UNCHANGED <<callers, cfg, producer, logger, storage, current_version, nextId, cancelled>>

\* Modelizer::infer: one model.classify(&tx).await of its loop.
ConsumerClassify ==
    /\ Polled
    /\ consumer.pc = "classify"
    /\ LET tx == consumer.batch[Len(consumer.results) + 1]
       IN  \/ \E roll \in Rolls :
                LET rec == infer_record(tx, classify(current_version, roll),
                                        consumer.model_name, consumer.model_version,
                                        current_version)
                    results == push(consumer.results, rec)
                    first == NextFraud(results, 1)
                IN  /\ consumer' = [consumer EXCEPT
                         !.results = results,
                         !.alarm_idx = IF Len(results) = Len(consumer.batch)
                                       THEN first ELSE 0,
                         !.pc = IF Len(results) < Len(consumer.batch) THEN "classify"
                                ELSE IF first = 0 THEN "write" ELSE "alarm"]
                    /\ UNCHANGED <<buf2, hist>>
           \/ \* classify returns InferenceFailed
              /\ ConsumerReturn(run_match("Inference", "InferenceFailed"),
                                consumer.count, buf2)
              /\ hist' = [hist EXCEPT !.failed = TRUE]
    /\ UNCHANGED <<callers, cfg, buf1, producer, logger, storage, current_version, nextId,
                   cancelled>>

\* alarm.trigger(tx).await for the next fraudulent record; failures are collected.
ConsumerAlarm ==
    /\ Polled
    /\ consumer.pc = "alarm"
    /\ LET rec == consumer.results[consumer.alarm_idx]
           next == NextFraud(consumer.results, consumer.alarm_idx + 1)
       IN  \E ok \in BOOLEAN :
             /\ consumer' = [consumer EXCEPT
                  !.alarm_errors = IF ok THEN @ ELSE Append(@, "DeliveryFailed"),
                  !.triggered = Append(@, [id |-> rec.transaction.id, ok |-> ok]),
                  !.alarm_idx = next,
                  !.pc = IF next = 0 THEN "write" ELSE "alarm"]
             /\ hist' = IF IsFollowed(rec.transaction)
                        THEN [hist EXCEPT !.alarms = Append(@, rec.transaction.id)]
                        ELSE hist
    /\ UNCHANGED <<callers, cfg, buf1, buf2, producer, logger, storage, current_version,
                   nextId, cancelled>>

\* buf2.write_batch(inferred), then the tail of the loop of run.
ConsumerWrite ==
    /\ Polled
    /\ consumer.pc = "write"
    /\ LET inferred == FollowedInferred(consumer.results)
           w == Buffer2_write_batch(buf2, inferred)
           count == IF inferred = <<>> THEN consumer.count ELSE consumer.count + 1
       IN  CASE w.res = "Ok" ->
                  /\ hist' = [hist EXCEPT !.written2 = @ \o inferred]
                  /\ IF LimitReached(cfg.c_iterations, consumer.count + 1)
                     THEN ConsumerReturn("Ok", consumer.count + 1, w.buf)
                     ELSE /\ buf2' = w.buf
                          /\ consumer' = [Consumer_new EXCEPT
                                            !.pc = "sleep", !.count = count]
             [] w.res \in {"Closed", "Full"} ->
                  /\ ConsumerReturn(run_match("Write", w.res), consumer.count, w.buf)
                  /\ hist' = [hist EXCEPT !.failed = TRUE]
             [] w.res = "Panic" ->
                  /\ consumer' = [consumer EXCEPT !.pc = "panic"]
                  /\ UNCHANGED <<buf2, hist>>
    /\ UNCHANGED <<callers, cfg, buf1, producer, logger, storage, current_version, nextId,
                   cancelled>>

\* tokio::time::sleep(speed2) has elapsed.
ConsumerWake ==
    /\ Polled
    /\ consumer.pc = "sleep"
    /\ consumer' = [consumer EXCEPT !.pc = "consume_once"]
    /\ UNCHANGED <<callers, cfg, buf1, buf2, producer, logger, storage, current_version,
                   nextId, cancelled, hist>>


\* ------------------------------------------------------------------------
\* Logger::run / log_once
\* ------------------------------------------------------------------------
\* Variant: the record is stored as already reviewed.
PendingTransaction_reviewed(tx) ==
    [inferred_transaction |-> tx, is_reviewed |-> TRUE, actual_fraud |-> "None"]

PendingTransaction(tx) ==
    [inferred_transaction |-> tx, is_reviewed |-> FALSE, actual_fraud |-> "None"]

\* Variant: a storage failure ends the loop with Ok.
Logger_run_match_any_ok(port, error) == "Ok"

\* The match of run on Err(e) from log_once: what run returns.
\*   Err(LoggerError::Read(BufferError::Closed)) => return Ok(())
\*   Err(e) => return Err(e)
Logger_run_match(port, error) ==
    IF port = "Read" /\ error = "Closed" THEN "Ok"
    ELSE CASE port = "Read" -> "Err_Read"
           [] port = "Write" /\ error = "CapacityExceeded" -> "Err_Write_CapacityExceeded"
           [] port = "Write" /\ error = "Unavailable" -> "Err_Write_Unavailable"

\* batch.into_iter().map(..).collect(): the rows for a batch of records.
Persisted(records) == [i \in 1..Len(records) |-> PendingTransaction(records[i])]

\* buf2.read_batch(n3): one turn of its loop; on data the batch is transformed.
LoggerPoll(n3) ==
    LET r == ConcurrentBuffer2_read_batch(buf2, n3)
    IN  CASE r.res = "Ok" ->
               /\ buf2' = r.buf
               /\ logger' = [logger EXCEPT
                               !.pc = "store", !.n3 = 0,
                               !.pending = [i \in 1..Len(r.batch) |->
                                              PendingTransaction(r.batch[i])]]
               /\ hist' = [hist EXCEPT !.read2 = @ \o r.batch]
          [] r.res = "Closed" ->
               /\ buf2' = r.buf
               /\ logger' = [logger EXCEPT !.pc = "done", !.n3 = 0,
                                           !.result = Logger_run_match("Read", r.res)]
               /\ hist' = [hist EXCEPT !.closed_seen = @ \cup {"logger"}]
          [] r.res = "Yield" ->
               /\ buf2' = r.buf
               /\ logger' = [logger EXCEPT !.pc = "yield", !.n3 = n3]
               /\ UNCHANGED hist
          [] r.res = "Panic" ->
               /\ logger' = [logger EXCEPT !.pc = "panic"]
               /\ UNCHANGED <<buf2, hist>>

\* log_once starts: draw n3, first turn of read_batch.
LoggerRead ==
    /\ Polled
    /\ logger.pc = "log_once"
    /\ \E n3 \in 1..N3Max : LoggerPoll(n3)
    /\ UNCHANGED <<callers, cfg, buf1, producer, consumer, storage, current_version, nextId,
                   cancelled>>

\* read_batch resumes after yield_now.
LoggerRetry ==
    /\ Polled
    /\ logger.pc = "yield"
    /\ LoggerPoll(logger.n3)
    /\ UNCHANGED <<callers, cfg, buf1, producer, consumer, storage, current_version, nextId,
                   cancelled>>

\* storage.write_batch(pending).await, then the tail of the loop of run.
LoggerStore ==
    /\ Polled
    /\ logger.pc = "store"
    /\ \E fail \in FailPoints(cfg.storage, logger.pending) :
       LET w == Storage_write_batch(cfg.storage, storage, cfg.capacity,
                                    logger.pending, fail)
       IN  IF w.res = "Ok"
           THEN /\ storage' = w.inner
                /\ logger' = [logger EXCEPT
                     !.count = @ + 1,
                     !.pending = <<>>,
                     !.pc = IF LimitReached(cfg.l_iterations, logger.count + 1)
                            THEN "done" ELSE "sleep",
                     !.result = IF LimitReached(cfg.l_iterations, logger.count + 1)
                                THEN "Ok" ELSE @]
                /\ UNCHANGED hist
           ELSE /\ storage' = w.inner
                /\ logger' = [logger EXCEPT !.pc = "done", !.pending = <<>>,
                                            !.result = Logger_run_match("Write", w.res)]
                /\ hist' = [hist EXCEPT !.failed = TRUE]
    /\ UNCHANGED <<callers, cfg, buf1, buf2, producer, consumer, current_version, nextId,
                   cancelled>>

\* tokio::time::sleep(poll_interval3) has elapsed.
LoggerWake ==
    /\ Polled
    /\ logger.pc = "sleep"
    /\ logger' = [logger EXCEPT !.pc = "log_once"]
    /\ UNCHANGED <<callers, cfg, buf1, buf2, producer, consumer, storage, current_version,
                   nextId, cancelled, hist>>

\* ------------------------------------------------------------------------
\* main: select! { ctrl_c => buffer1.close(), result = pipeline => result? }
\* ------------------------------------------------------------------------
\* Variant: the ctrl_c arm closes both buffers.
Cancel_closes_both ==
    /\ Polled
    /\ ~Joined
    /\ buf1' = ConcurrentBuffer_close(buf1).buf
    /\ buf2' = ConcurrentBuffer2_close(buf2).buf
    /\ cancelled' = TRUE
    /\ UNCHANGED <<callers, cfg, producer, consumer, logger, storage, current_version,
                   nextId, hist>>

\* The ctrl_c arm wins: it closes Buffer1; select! drops the pipeline future,
\* whose three tasks are never polled again, and main returns Ok(()).
Cancel ==
    /\ Polled
    /\ ~Joined
    /\ buf1' = ConcurrentBuffer_close(buf1).buf
    /\ cancelled' = TRUE
    /\ UNCHANGED <<callers, cfg, buf2, producer, consumer, logger, storage, current_version,
                   nextId, hist>>

\* main has returned.
MainReturned == cancelled \/ Joined

MainResult == IF cancelled THEN "Ok" ELSE PipelineResult

Next ==
    \/ ProducerStep
    \/ ProducerWake
    \/ ConsumerRead
    \/ ConsumerRetry
    \/ ConsumerClassify
    \/ ConsumerAlarm
    \/ ConsumerWrite
    \/ ConsumerWake
    \/ LoggerRead
    \/ LoggerRetry
    \/ LoggerStore
    \/ LoggerWake
    \/ Cancel

Spec == Init /\ [][Next]_vars


\* ------------------------------------------------------------------------
\* The buffers on their own: a writer task and a reader task joined on the
\* executor call write_batch / close and read_batch on one concurrent buffer
\* (the setting of the adapters' unit tests, e.g. yield_unblocks_read).
\* ------------------------------------------------------------------------
SeqsUpTo(S, n) == UNION {[1..k -> S] : k \in 0..n}

WriterOps ==
    {[op |-> "write", size |-> n] : n \in 0..MaxBatch} \cup {[op |-> "close", size |-> 0]}

\* make_txs(n) / (0..n).map(make_inferred) of the tests.
Items(size, first) ==
    IF target = 1
    THEN generate_batch(size, first)
    ELSE [i \in 1..size |->
            InferredTransaction(Transaction(first + i - 1), FALSE, "DEMO", "4")]

TargetBuf == IF target = 1 THEN buf1 ELSE buf2

TargetWritten == IF target = 1 THEN hist.written1 ELSE hist.written2

TargetRead == IF target = 1 THEN hist.read1 ELSE hist.read2

write_batch(inner, batch) ==
    IF target = 1 THEN ConcurrentBuffer_write_batch(inner, batch)
    ELSE ConcurrentBuffer2_write_batch(inner, batch)

read_batch(inner, max) ==
    IF target = 1 THEN ConcurrentBuffer_read_batch(inner, max)
    ELSE ConcurrentBuffer2_read_batch(inner, max)

close(inner) ==
    IF target = 1 THEN ConcurrentBuffer_close(inner) ELSE ConcurrentBuffer2_close(inner)

SetTarget(b) ==
    /\ buf1' = IF target = 1 THEN b ELSE buf1
    /\ buf2' = IF target = 2 THEN b ELSE buf2

BufInit ==
    /\ target \in {1, 2}
    /\ writer \in [script : SeqsUpTo(WriterOps, MaxOps), idx : {1}, results : {<<>>}]
    /\ inferrer = Inferrer_new
    /\ switcher = Switcher_new
    /\ twins = NoTwins
    /\ builder = NoBuilder
    /\ reader \in [script : SeqsUpTo(1..MaxRead, MaxReads), idx : {1},
                   pc : {"idle"}, results : {<<>>}]
    /\ cfg = [p_iterations |-> None, c_iterations |-> None, l_iterations |-> None,
              capacity |-> AmpleCapacity, storage |-> "InMemoryStorage"]
    /\ buf1 = ConcurrentBuffer_new
    /\ buf2 = ConcurrentBuffer2_new
    /\ producer = Producer_new
    /\ consumer = Consumer_new
    /\ logger = Logger_new
    /\ storage = <<>>
    /\ current_version = "N"
    /\ nextId = 1
    /\ cancelled = FALSE
    /\ hist = NoHist

CallersPolled == "Panic" \notin {writer.results[i] : i \in 1..Len(writer.results)}
                 /\ reader.pc # "panic"

\* The writer's next call: buffer.write_batch(items).await
WriterWrite ==
    /\ CallersPolled
    /\ writer.idx <= Len(writer.script)
    /\ writer.script[writer.idx].op = "write"
    /\ LET batch == Items(writer.script[writer.idx].size, nextId)
           w == write_batch(TargetBuf, batch)
       IN  /\ SetTarget(w.buf)
           /\ writer' = [writer EXCEPT !.idx = @ + 1, !.results = Append(@, w.res)]
           /\ nextId' = nextId + Len(batch)
           /\ hist' = IF w.res # "Ok" THEN hist
                      ELSE IF target = 1 THEN [hist EXCEPT !.written1 = @ \o batch]
                      ELSE [hist EXCEPT !.written2 = @ \o batch]
    /\ UNCHANGED <<cfg, producer, consumer, logger, storage, current_version,
                   cancelled, target, reader, inferrer, switcher, twins, builder>>

\* The writer's next call: buffer.close()
WriterClose ==
    /\ CallersPolled
    /\ writer.idx <= Len(writer.script)
    /\ writer.script[writer.idx].op = "close"
    /\ LET c == close(TargetBuf)
       IN  /\ SetTarget(c.buf)
           /\ writer' = [writer EXCEPT !.idx = @ + 1, !.results = Append(@, c.res)]
    /\ UNCHANGED <<cfg, producer, consumer, logger, storage, current_version,
                   nextId, cancelled, hist, target, reader, inferrer, switcher, twins, builder>>

\* One turn of the loop of buffer.read_batch(max).
ReaderPoll(max) ==
    LET r == read_batch(TargetBuf, max)
    IN  /\ SetTarget(r.buf)
        /\ CASE r.res = "Ok" ->
                  /\ reader' = [reader EXCEPT
                       !.pc = "idle", !.idx = @ + 1,
                       !.results = Append(@, [res |-> "Ok", batch |-> r.batch])]
                  /\ hist' = IF target = 1 THEN [hist EXCEPT !.read1 = @ \o r.batch]
                             ELSE [hist EXCEPT !.read2 = @ \o r.batch]
             [] r.res = "Closed" ->
                  /\ reader' = [reader EXCEPT
                       !.pc = "idle", !.idx = @ + 1,
                       !.results = Append(@, [res |-> "Closed", batch |-> <<>>])]
                  /\ hist' = [hist EXCEPT !.closed_seen = @ \cup {"reader"}]
             [] r.res = "Yield" ->
                  /\ reader' = [reader EXCEPT !.pc = "yield"]
                  /\ UNCHANGED hist
             [] r.res = "Panic" ->
                  /\ reader' = [reader EXCEPT !.pc = "panic"]
                  /\ UNCHANGED hist

\* The reader's next call starts: first turn of read_batch.
ReaderCall ==
    /\ CallersPolled
    /\ reader.pc = "idle"
    /\ reader.idx <= Len(reader.script)
    /\ ReaderPoll(reader.script[reader.idx])
    /\ UNCHANGED <<cfg, producer, consumer, logger, storage, current_version,
                   nextId, cancelled, target, writer, inferrer, switcher, twins, builder>>

\* read_batch resumes after yield_now.
ReaderRetry ==
    /\ CallersPolled
    /\ reader.pc = "yield"
    /\ ReaderPoll(reader.script[reader.idx])
    /\ UNCHANGED <<cfg, producer, consumer, logger, storage, current_version,
                   nextId, cancelled, target, writer, inferrer, switcher, twins, builder>>

BufNext ==
    \/ WriterWrite
    \/ WriterClose
    \/ ReaderCall
    \/ ReaderRetry

BufSpec == BufInit /\ [][BufNext]_vars

\* tokio::join! polls every unfinished future each time it is woken, and
\* yield_now wakes its own task: neither caller is starved.
\* The reader makes a single call, against every writer.
BufFairInit == BufInit /\ Len(reader.script) = 1

BufFairSpec ==
    /\ BufFairInit
    /\ [][BufNext]_vars
    /\ WF_vars(WriterWrite \/ WriterClose)
    /\ WF_vars(ReaderCall \/ ReaderRetry)

\* ------------------------------------------------------------------------
\* ------------------------------------------------------------------------
\* The Modelizer on its own: one task calls infer on batches of its choice
\* (the empty batch included), another calls switch_version; both are joined
\* on the executor.  classify(&tx).await is a suspension point of infer: the
\* Model port is asynchronous and an adapter may suspend there, so that a
\* switch_version can return between two classify calls of one infer.
\* (DemoModel::classify itself awaits nothing.)
\* ------------------------------------------------------------------------
ModInit ==
    /\ inferrer = Inferrer_new
    /\ switcher = Switcher_new
    /\ twins = NoTwins
    /\ builder = NoBuilder
    /\ current_version = "N"
    /\ nextId = 1
    /\ target = 0
    /\ writer = [script |-> <<>>, idx |-> 1, results |-> <<>>]
    /\ reader = [script |-> <<>>, idx |-> 1, pc |-> "idle", results |-> <<>>]
    /\ cfg = [p_iterations |-> None, c_iterations |-> None, l_iterations |-> None,
              capacity |-> AmpleCapacity, storage |-> "InMemoryStorage"]
    /\ buf1 = ConcurrentBuffer_new
    /\ buf2 = ConcurrentBuffer2_new
    /\ producer = Producer_new
    /\ consumer = Consumer_new
    /\ logger = Logger_new
    /\ storage = <<>>
    /\ cancelled = FALSE
    /\ hist = NoHist

pipeline == <<cfg, buf1, buf2, producer, consumer, logger, storage, cancelled, hist>>

\* infer returns: Ok(results) or, through `?`, the error of classify.
InferReturn(call, res, output) ==
    inferrer' = [Inferrer_new EXCEPT
                   !.calls = call.calls + 1,
                   !.last = [res |-> res, batch |-> call.batch, output |-> output,
                             model_name |-> call.model_name,
                             model_version |-> call.model_version,
                             start |-> call.start, trace |-> call.trace],
                   !.returned = Append(call.returned,
                       [res |-> res, size |-> Len(call.batch),
                        labels |-> {output[i].model_version : i \in 1..Len(output)}])]

\* infer(batch) starts: name() and active_version() are read once; the loop
\* over an empty batch returns at once.
InferCall ==
    /\ inferrer.pc = "idle"
    /\ inferrer.calls < MaxCalls
    /\ \E size \in 0..MaxBatch :
         LET batch == generate_batch(size, nextId)
             call == [inferrer EXCEPT
                        !.batch = batch,
                        !.model_name = name,
                        !.model_version = active_version(current_version),
                        !.start = switcher.requested]
         IN  /\ nextId' = nextId + size
             /\ IF batch = <<>>
                THEN InferReturn(call, "Ok", <<>>)
                ELSE inferrer' = [call EXCEPT !.pc = "classify"]
    /\ UNCHANGED <<pipeline, current_version, target, writer, reader, switcher, twins, builder>>

\* One self.model.classify(&tx).await of the loop and the push that follows.
InferClassify ==
    /\ inferrer.pc = "classify"
    /\ LET tx == inferrer.batch[Len(inferrer.results) + 1]
       IN  \/ \E roll \in Rolls :
                LET rec == infer_record(tx, classify(current_version, roll),
                                        inferrer.model_name, inferrer.model_version,
                                        current_version)
                    call == [inferrer EXCEPT
                               !.results = push(@, rec),
                               !.trace = Append(@, [tx |-> tx, roll |-> roll,
                                                    requested |-> switcher.requested])]
                IN  IF Len(call.results) = Len(inferrer.batch)
                    THEN InferReturn(call, "Ok", call.results)
                    ELSE inferrer' = call
           \/ \* classify returns InferenceFailed
              InferReturn([inferrer EXCEPT
                             !.trace = Append(@, [tx |-> tx, roll |-> 0,
                                                  requested |-> switcher.requested])],
                          "Err_Inference", <<>>)
    /\ UNCHANGED <<pipeline, current_version, nextId, target, writer, reader, switcher, twins, builder>>

\* Modelizer::switch_version(version): forwarded to the model; no await inside.
SwitchCall ==
    /\ switcher.calls < MaxSwitches
    /\ \E version \in ModelVersion :
         /\ current_version' = switch_version(current_version, version)
         /\ switcher' = [calls |-> switcher.calls + 1, requested |-> version]
    /\ UNCHANGED <<pipeline, nextId, target, writer, reader, inferrer, twins, builder>>

ModNext ==
    \/ InferCall
    \/ InferClassify
    \/ SwitchCall

ModSpec == ModInit /\ [][ModNext]_vars

\* ------------------------------------------------------------------------
\* Consumer::run called on its own, as its tests call it: Buffer1 holds the
\* transactions written before the call and reports Closed once drained;
\* Buffer2 is an open or an already closed ConcurrentBuffer2, or an
\* InMemoryBuffer2 of small capacity; the Model and the Alarm may fail on
\* any call.  Nothing else runs.
\* ------------------------------------------------------------------------
ConInit ==
    /\ cfg \in [p_iterations : {None}, c_iterations : {None, Some(1)},
                l_iterations : {None}, capacity : {AmpleCapacity},
                storage : {"InMemoryStorage"}]
    /\ \E k \in 0..MaxTx :
         /\ buf1 = [ConcurrentBuffer_new EXCEPT
                      !.data = generate_batch(k, 1), !.closed = TRUE]
         /\ nextId = k + 1
         /\ hist = [NoHist EXCEPT !.written1 = generate_batch(k, 1)]
    /\ buf2 \in {ConcurrentBuffer2_new,
                 ConcurrentBuffer2_close(ConcurrentBuffer2_new).buf,
                 InMemoryBuffer2_new(SmallCapacity)}
    /\ producer = [Producer_new EXCEPT !.pc = "done", !.result = "Ok"]
    /\ consumer = Consumer_new
    /\ logger = Logger_new
    /\ storage = <<>>
    /\ current_version = "N"
    /\ cancelled = FALSE
    /\ target = 0
    /\ writer = [script |-> <<>>, idx |-> 1, results |-> <<>>]
    /\ reader = [script |-> <<>>, idx |-> 1, pc |-> "idle", results |-> <<>>]
    /\ inferrer = Inferrer_new
    /\ switcher = Switcher_new
    /\ twins = NoTwins
    /\ builder = NoBuilder

ConNext ==
    \/ ConsumerRead
    \/ ConsumerClassify
    \/ ConsumerAlarm
    \/ ConsumerWrite
    \/ ConsumerWake

ConSpec == ConInit /\ [][ConNext]_vars

\* ------------------------------------------------------------------------
\* Consumer::switch_model_version, called by the holder of the Consumer
\* while Consumer::run is under way on the same executor.  The Modelizer is
\* the DemoModel behind Modelizer::switch_version, or one whose switch fails
\* (MockModelizer::failing_switch).
\* ------------------------------------------------------------------------
\* modelizer.switch_version(version): what it returns and the active version.
Modelizer_switch_version(current, version, fail_switch) ==
    IF fail_switch
    THEN [res |-> "SwitchFailed", current_version |-> current]
    ELSE [res |-> "Ok", current_version |-> switch_version(current, version)]

\* Variant: the Consumer asks for the default version N whatever it was given.
switch_model_version_default(current, version, fail_switch) ==
    LET m == Modelizer_switch_version(current, "N", fail_switch)
    IN  [res |-> IF m.res = "Ok" THEN "Ok" ELSE "Err_Inference",
         current_version |-> m.current_version,
         forwarded |-> <<"N">>]

\* modelizer.switch_version(version).await.map_err(ConsumerError::Inference)
\* forwarded: the versions handed to modelizer.switch_version by this call.
switch_model_version(current, version, fail_switch) ==
    LET m == Modelizer_switch_version(current, version, fail_switch)
    IN  [res |-> IF m.res = "Ok" THEN "Ok" ELSE "Err_Inference",
         current_version |-> m.current_version,
         forwarded |-> <<version>>]

\* No switch_model_version call made yet.  forwarded: every version handed
\* to modelizer.switch_version; returned: what each call was asked and gave.
ConsumerSwitcher_new ==
    [calls |-> 0, requested |-> "N", forwarded |-> <<>>, returned |-> <<>>]

SwInit ==
    /\ cfg \in [p_iterations : {None}, c_iterations : {None, Some(1)},
                l_iterations : {None}, capacity : {AmpleCapacity},
                storage : {"InMemoryStorage"}]
    /\ \E k \in 0..MaxTx :
         /\ buf1 = [ConcurrentBuffer_new EXCEPT
                      !.data = generate_batch(k, 1), !.closed = TRUE]
         /\ nextId = k + 1
         /\ hist = [NoHist EXCEPT !.written1 = generate_batch(k, 1)]
    /\ buf2 = ConcurrentBuffer2_new
    /\ producer = [Producer_new EXCEPT !.pc = "done", !.result = "Ok"]
    /\ consumer = Consumer_new
    /\ logger = Logger_new
    /\ storage = <<>>
    /\ current_version = "N"
    /\ cancelled = FALSE
    /\ target = 0
    /\ writer = [script |-> <<>>, idx |-> 1, results |-> <<>>]
    /\ reader = [script |-> <<>>, idx |-> 1, pc |-> "idle", results |-> <<>>]
    /\ inferrer = Inferrer_new
    /\ switcher = ConsumerSwitcher_new
    /\ twins = NoTwins
    /\ builder = NoBuilder

\* consumer.switch_model_version(&modelizer, version).await
ConsumerSwitch ==
    /\ switcher.calls < MaxSwitches
    /\ \E version \in ModelVersion, fail_switch \in BOOLEAN :
         LET r == switch_model_version(current_version, version, fail_switch)
         IN  /\ current_version' = r.current_version
             /\ switcher' = [calls |-> switcher.calls + 1,
                             requested |-> IF r.res = "Ok" THEN version
                                           ELSE switcher.requested,
                             forwarded |-> switcher.forwarded \o r.forwarded,
                             returned |-> Append(switcher.returned,
                                                 [version |-> version, res |-> r.res])]
    /\ UNCHANGED <<pipeline, nextId, target, writer, reader, inferrer, twins, builder>>

SwNext ==
    \/ ConsumerRead
    \/ ConsumerClassify
    \/ ConsumerAlarm
    \/ ConsumerWrite
    \/ ConsumerWake
    \/ ConsumerSwitch

SwSpec == SwInit /\ [][SwNext]_vars

\* ------------------------------------------------------------------------
\* Producer::run followed by the close of the producer-side wiring, joined
\* with the Consumer side only.  Buffer1 is a ConcurrentBuffer that a holder
\* may close at any time while both tasks go on being polled (the ClosedBuffer
\* of the Producer's tests when closed before the first write, its TestBuffer
\* when never closed), or the FullBuffer of those tests.  Buffer2 is not read.
\* ------------------------------------------------------------------------
ProInit ==
    /\ cfg \in [p_iterations : IterOptions, c_iterations : {None},
                l_iterations : {None}, capacity : {AmpleCapacity},
                storage : {"InMemoryStorage"}]
    /\ buf1 \in {ConcurrentBuffer_new, FullBuffer_new}
    /\ buf2 = ConcurrentBuffer2_new
    /\ producer = Producer_new
    /\ consumer = IF IsFullBuffer(buf1)
                  THEN [Consumer_new EXCEPT !.pc = "done", !.result = "Ok"]
                  ELSE Consumer_new
    /\ logger = [Logger_new EXCEPT !.pc = "done", !.result = "Ok"]
    /\ storage = <<>>
    /\ current_version = "N"
    /\ nextId = 1
    /\ cancelled = FALSE
    /\ hist = NoHist
    /\ target = 0
    /\ writer = [script |-> <<>>, idx |-> 1, results |-> <<>>]
    /\ reader = [script |-> <<>>, idx |-> 1, pc |-> "idle", results |-> <<>>]
    /\ inferrer = Inferrer_new
    /\ switcher = Switcher_new
    /\ twins = NoTwins
    /\ builder = NoBuilder

\* buffer1.close() by a holder of the buffer while run is in its loop.
CloseBuffer1 ==
    /\ producer.pc # "done"
    /\ ~IsFullBuffer(buf1)
    /\ ~buf1.closed
    /\ buf1' = ConcurrentBuffer_close(buf1).buf
    /\ UNCHANGED <<callers, cfg, buf2, producer, consumer, logger, storage,
                   current_version, nextId, cancelled, hist>>

ProNext ==
    \/ ProducerStep
    \/ ProducerWake
    \/ CloseBuffer1
    \/ ConsumerRead
    \/ ConsumerRetry
    \/ ConsumerClassify
    \/ ConsumerAlarm
    \/ ConsumerWrite
    \/ ConsumerWake

ProSpec == ProInit /\ [][ProNext]_vars

\* ------------------------------------------------------------------------
\* Producer::run and Consumer::run joined over one InMemoryBuffer, the demo
\* Buffer1 adapter.  Buffer2 is an open ConcurrentBuffer2 that is not read.
\* ------------------------------------------------------------------------
DemoInit ==
    /\ cfg \in [p_iterations : {Some(n) : n \in 1..MaxIter}, c_iterations : {None},
                l_iterations : {None}, capacity : {AmpleCapacity},
                storage : {"InMemoryStorage"}]
    /\ buf1 = InMemoryBuffer_new
    /\ buf2 = ConcurrentBuffer2_new
    /\ producer = Producer_new
    /\ consumer = Consumer_new
    /\ logger = [Logger_new EXCEPT !.pc = "done", !.result = "Ok"]
    /\ storage = <<>>
    /\ current_version = "N"
    /\ nextId = 1
    /\ cancelled = FALSE
    /\ hist = NoHist
    /\ target = 0
    /\ writer = [script |-> <<>>, idx |-> 1, results |-> <<>>]
    /\ reader = [script |-> <<>>, idx |-> 1, pc |-> "idle", results |-> <<>>]
    /\ inferrer = Inferrer_new
    /\ switcher = Switcher_new
    /\ twins = NoTwins
    /\ builder = NoBuilder

DemoNext ==
    \/ ProducerStep
    \/ ProducerWake
    \/ ConsumerRead
    \/ ConsumerClassify
    \/ ConsumerAlarm
    \/ ConsumerWrite
    \/ ConsumerWake

DemoSpec == DemoInit /\ [][DemoNext]_vars

\* ------------------------------------------------------------------------
\* Logger::run called on its own, as its tests call it: Buffer2 holds the
\* records written before the call and is closed by its holder at any time
\* (the consumer-side wiring, once Consumer::run has returned); Storage is
\* an InMemoryStorage of small or ample capacity, or a SqliteStorage whose
\* inserts may fail.
\* ------------------------------------------------------------------------
LogInit ==
    /\ cfg \in {c \in [p_iterations : {None}, c_iterations : {None},
                        l_iterations : {None, Some(1)},
                        capacity : {SmallCapacity, AmpleCapacity},
                        storage : {"InMemoryStorage", "SqliteStorage"}] :
                   c.storage = "SqliteStorage" => c.capacity = AmpleCapacity}
    /\ \E k \in 0..MaxTx :
         LET records == [i \in 1..k |->
                           InferredTransaction(Transaction(i), FALSE, name,
                                               active_version("N"))]
         IN  /\ buf2 = [ConcurrentBuffer2_new EXCEPT !.data = records]
             /\ hist = [NoHist EXCEPT !.written1 = generate_batch(k, 1),
                                      !.read1 = generate_batch(k, 1),
                                      !.written2 = records]
             /\ nextId = k + 1
    /\ buf1 = ConcurrentBuffer_close(ConcurrentBuffer_new).buf
    /\ producer = [Producer_new EXCEPT !.pc = "done", !.result = "Ok"]
    /\ consumer = [Consumer_new EXCEPT !.pc = "done", !.result = "Ok"]
    /\ logger = Logger_new
    /\ storage = <<>>
    /\ current_version = "N"
    /\ cancelled = FALSE
    /\ target = 0
    /\ writer = [script |-> <<>>, idx |-> 1, results |-> <<>>]
    /\ reader = [script |-> <<>>, idx |-> 1, pc |-> "idle", results |-> <<>>]
    /\ inferrer = Inferrer_new
    /\ switcher = Switcher_new
    /\ twins = NoTwins
    /\ builder = NoBuilder

\* buffer2.close() by the holder of the buffer while run is in its loop.
CloseBuffer2 ==
    /\ logger.pc # "done"
    /\ ~buf2.closed
    /\ buf2' = ConcurrentBuffer2_close(buf2).buf
    /\ UNCHANGED <<callers, cfg, buf1, producer, consumer, logger, storage,
                   current_version, nextId, cancelled, hist>>

LogNext ==
    \/ LoggerRead
    \/ LoggerRetry
    \/ LoggerStore
    \/ LoggerWake
    \/ CloseBuffer2

LogSpec == LogInit /\ [][LogNext]_vars

\* ------------------------------------------------------------------------
\* The bounded in-memory adapters on their own, as their tests call them: an
\* InMemoryBuffer2 and an InMemoryStorage of the same small capacity, and a
\* caller that writes batches of any size to either; writer.results keeps
\* what each call was given and what it returned.
\* ------------------------------------------------------------------------
Capacities == 0..(SmallCapacity + 1)

CapInit ==
    /\ cfg \in [p_iterations : {None}, c_iterations : {None}, l_iterations : {None},
                capacity : Capacities, storage : {"InMemoryStorage"}]
    /\ buf1 = ConcurrentBuffer_new
    /\ buf2 = InMemoryBuffer2_new(cfg.capacity)
    /\ producer = Producer_new
    /\ consumer = Consumer_new
    /\ logger = Logger_new
    /\ storage = <<>>
    /\ current_version = "N"
    /\ nextId = 1
    /\ cancelled = FALSE
    /\ hist = NoHist
    /\ target = 0
    /\ writer = [script |-> <<>>, idx |-> 1, results |-> <<>>]
    /\ reader = [script |-> <<>>, idx |-> 1, pc |-> "idle", results |-> <<>>]
    /\ inferrer = Inferrer_new
    /\ switcher = Switcher_new
    /\ twins = NoTwins
    /\ builder = NoBuilder

\* A batch of `size` fresh inferred transactions.
CapBatch(size) ==
    [i \in 1..size |->
       InferredTransaction(Transaction(nextId + i - 1), FALSE, name, active_version("N"))]

\* buf2.write_batch(batch) on the InMemoryBuffer2.
CapWriteBuffer2 ==
    /\ Len(writer.results) < MaxOps
    /\ \E size \in 0..MaxBatch :
         LET batch == CapBatch(size)
             w == InMemoryBuffer2_write_batch(buf2, batch)
         IN  /\ buf2' = w.buf
             /\ writer' = [writer EXCEPT !.results =
                             Append(@, [port |-> "Buffer2", batch |-> batch,
                                        returned |-> [f \in DOMAIN w \ {"buf"} |-> w[f]]])]
             /\ nextId' = nextId + size
    /\ UNCHANGED <<cfg, buf1, producer, consumer, logger, storage, current_version,
                   cancelled, hist, target, reader, inferrer, switcher, twins, builder>>

\* storage.write_batch(batch) on the InMemoryStorage.
CapWriteStorage ==
    /\ Len(writer.results) < MaxOps
    /\ \E size \in 0..MaxBatch :
         LET batch == Persisted(CapBatch(size))
             w == InMemoryStorage_write_batch(storage, cfg.capacity, batch)
         IN  /\ storage' = w.inner
             /\ writer' = [writer EXCEPT !.results =
                             Append(@, [port |-> "Storage", batch |-> batch,
                                        returned |-> [f \in DOMAIN w \ {"inner"} |-> w[f]]])]
             /\ nextId' = nextId + size
    /\ UNCHANGED <<cfg, buf1, buf2, producer, consumer, logger, current_version,
                   cancelled, hist, target, reader, inferrer, switcher, twins, builder>>

CapNext ==
    \/ CapWriteBuffer2
    \/ CapWriteStorage

CapSpec == CapInit /\ [][CapNext]_vars

\* ------------------------------------------------------------------------
\* Two instances of one component (Producer, Consumer or DemoModel), each
\* built from its own configuration, are given the same sequence of calls
\* and make them each at its own pace; `out` keeps what each call returned
\* (for a Consumer: the batch size it asked Buffer1 for).
\* ------------------------------------------------------------------------
TwinOps(kind) ==
    CASE kind = "Producer"  -> {"generate_batch"}
      [] kind = "Consumer"  -> {"consume_once"}
      [] kind = "DemoModel" -> {"classify", "switch_N", "switch_NMinus1"}

\* Producer::new / Consumer::new / DemoModel::new
Twin_new(seed, n_max, os) ==
    [seed |-> seed, n_max |-> n_max, rng |-> new_rng(seed, os),
     current_version |-> "N", idx |-> 1, out |-> <<>>]

TwinInit ==
    /\ \E kind \in {"Producer", "Consumer", "DemoModel"} :
       \E script \in SeqsUpTo(TwinOps(kind), MaxOps) :
       \E a, b \in {Twin_new(seed, n_max, os) :
                      seed \in Seeds,
                      n_max \in IF kind = "DemoModel" THEN {1} ELSE 1..N1Max,
                      os \in RngStates} :
          twins = [kind |-> kind, script |-> script, inst |-> <<a, b>>]
    /\ cfg = [p_iterations |-> None, c_iterations |-> None, l_iterations |-> None,
              capacity |-> AmpleCapacity, storage |-> "InMemoryStorage"]
    /\ buf1 = ConcurrentBuffer_new
    /\ buf2 = ConcurrentBuffer2_new
    /\ producer = Producer_new
    /\ consumer = Consumer_new
    /\ logger = Logger_new
    /\ storage = <<>>
    /\ current_version = "N"
    /\ nextId = 1
    /\ cancelled = FALSE
    /\ hist = NoHist
    /\ target = 0
    /\ writer = [script |-> <<>>, idx |-> 1, results |-> <<>>]
    /\ reader = [script |-> <<>>, idx |-> 1, pc |-> "idle", results |-> <<>>]
    /\ inferrer = Inferrer_new
    /\ switcher = Switcher_new
    /\ builder = NoBuilder

\* One call on one instance: what it returns and the instance afterwards.
Twin_call(t, op) ==
    CASE op = "generate_batch" ->
           LET g == generate_batch_seeded(t.rng, t.n_max)
           IN  [t EXCEPT !.rng = g.rng, !.out = Append(@, g.batch), !.idx = @ + 1]
      [] op = "consume_once" ->
           LET n2 == random_range(t.rng, 1, t.n_max)
           IN  [t EXCEPT !.rng = n2.rng, !.out = Append(@, n2.value), !.idx = @ + 1]
      [] op = "classify" ->
           LET c == classify_seeded(t.rng, t.current_version)
           IN  [t EXCEPT !.rng = c.rng, !.out = Append(@, c.value), !.idx = @ + 1]
      [] op = "switch_N" ->
           [t EXCEPT !.current_version = switch_version(@, "N"), !.idx = @ + 1]
      [] op = "switch_NMinus1" ->
           [t EXCEPT !.current_version = switch_version(@, "NMinus1"), !.idx = @ + 1]

\* The next call of the script on instance i.
TwinStep(i) ==
    /\ twins.inst[i].idx <= Len(twins.script)
    /\ twins' = [twins EXCEPT
                   !.inst[i] = Twin_call(@, twins.script[twins.inst[i].idx])]
    /\ UNCHANGED <<pipeline, current_version, nextId, target, writer, reader,
                   inferrer, switcher, builder>>

TwinFirst == TwinStep(1)

TwinSecond == TwinStep(2)

TwinNext ==
    \/ TwinFirst
    \/ TwinSecond

TwinSpec == TwinInit /\ [][TwinNext]_vars

\* ------------------------------------------------------------------------
\* main from its first line: the three configurations are built in turn,
\* each `build()?` returning from main on InvalidConfig; the components are
\* wired and the pipeline is polled only once all three are built.
\* ------------------------------------------------------------------------
\* Variant: build performs no validation.
build_unchecked(n_max) == [res |-> "Ok", config |-> Some(n_max)]

\* XConfigBuilder::build: if self.nK_max == 0 { return Err(InvalidConfig) }
\* config is the Option of what build yields (the built nK_max).
build(n_max) ==
    IF n_max = 0
    THEN [res |-> "InvalidConfig", config |-> None]
    ELSE [res |-> "Ok", config |-> Some(n_max)]

Components == <<"producer", "consumer", "logger">>

\* The builders main is about to call, with the nK_max each was given.
Builder_new(n1_max, n2_max, n3_max) ==
    [next |-> 1, n_max |-> <<n1_max, n2_max, n3_max>>, returned |-> <<>>]

BuildInit ==
    /\ builder \in {Builder_new(n1_max, n2_max, n3_max) :
                       n1_max \in {0, N1Max}, n2_max \in {0, N2Max},
                       n3_max \in {0, N3Max}}
    /\ cfg \in [p_iterations : {Some(n) : n \in 1..MaxIter},
                c_iterations : {None}, l_iterations : {None},
                capacity : {AmpleCapacity}, storage : {"InMemoryStorage"}]
    /\ buf1 = ConcurrentBuffer_new
    /\ buf2 = ConcurrentBuffer2_new
    /\ producer = Producer_new
    /\ consumer = Consumer_new
    /\ logger = Logger_new
    /\ storage = <<>>
    /\ current_version = "N"
    /\ nextId = 1
    /\ cancelled = FALSE
    /\ hist = NoHist
    /\ target = 0
    /\ writer = [script |-> <<>>, idx |-> 1, results |-> <<>>]
    /\ reader = [script |-> <<>>, idx |-> 1, pc |-> "idle", results |-> <<>>]
    /\ inferrer = Inferrer_new
    /\ switcher = Switcher_new
    /\ twins = NoTwins

\* Every build so far has returned Ok.
AllBuilt(b) == \A i \in 1..Len(b.returned) : b.returned[i].res = "Ok"

\* main has wired the components: the pipeline is being polled.
Wired == AllBuilt(builder) /\ Len(builder.returned) = Len(Components)

\* XConfig::builder(nK_max) ... .build().context(..)?
Build ==
    /\ builder.next <= Len(Components)
    /\ AllBuilt(builder)
    /\ builder' = [builder EXCEPT
                     !.next = @ + 1,
                     !.returned = Append(@, build(builder.n_max[builder.next]))]
    /\ UNCHANGED <<pipeline, current_version, nextId, target, writer, reader,
                   inferrer, switcher, twins>>

BuildNext ==
    \/ Build
    \/ Wired /\ Next

BuildSpec == BuildInit /\ [][BuildNext]_vars

\* ------------------------------------------------------------------------
\* The join seen from main: each of the three runs returns, at some point
\* and in any order, one of the values its run can return; the wiring's
\* closes follow; ctrl_c may win the select! before the join completes.
\* ------------------------------------------------------------------------
ProducerResults == {"Ok", Producer_run_match("Full")}

ConsumerResults ==
    {"Ok"} \cup {run_match(port, "Full") : port \in {"Read", "Inference", "Write"}}

LoggerResults ==
    {"Ok", Logger_run_match("Read", "Full"),
     Logger_run_match("Write", "CapacityExceeded"),
     Logger_run_match("Write", "Unavailable")}

\* producer.run(&buffer1).await returns; buffer1.close()
ProducerRunReturns(result) ==
    /\ Polled
    /\ producer.pc # "done"
    /\ ProducerReturn(result, producer.count, buf1)
    /\ UNCHANGED <<callers, cfg, buf2, consumer, logger, storage, current_version,
                   nextId, cancelled, hist>>

\* consumer.run(..).await returns; buffer2.close()
ConsumerRunReturns(result) ==
    /\ Polled
    /\ consumer.pc # "done"
    /\ ConsumerReturn(result, consumer.count, buf2)
    /\ UNCHANGED <<callers, cfg, buf1, producer, logger, storage, current_version,
                   nextId, cancelled, hist>>

\* logger.run(&buffer2, &storage).await returns
LoggerRunReturns(result) ==
    /\ Polled
    /\ logger.pc # "done"
    /\ logger' = [logger EXCEPT !.pc = "done", !.result = result]
    /\ UNCHANGED <<callers, cfg, buf1, buf2, producer, consumer, storage,
                   current_version, nextId, cancelled, hist>>

ResInit ==
    /\ Init
    /\ cfg.p_iterations = None /\ cfg.c_iterations = None /\ cfg.l_iterations = None
    /\ cfg.capacity = AmpleCapacity

ResNext ==
    \/ \E result \in ProducerResults : ProducerRunReturns(result)
    \/ \E result \in ConsumerResults : ConsumerRunReturns(result)
    \/ \E result \in LoggerResults : LoggerRunReturns(result)
    \/ Cancel

ResSpec == ResInit /\ [][ResNext]_vars

\* ------------------------------------------------------------------------
\* The wired pipeline without the ctrl_c race (run_bench), under the fair
\* cooperative scheduler: every unfinished task is polled again.
\* ------------------------------------------------------------------------
JoinInit ==
    /\ Init
    /\ cfg.c_iterations = None
    /\ cfg.l_iterations = None

ProducerTask == ProducerStep \/ ProducerWake

ConsumerTask ==
    ConsumerRead \/ ConsumerRetry \/ ConsumerClassify \/ ConsumerAlarm
    \/ ConsumerWrite \/ ConsumerWake

LoggerTask == LoggerRead \/ LoggerRetry \/ LoggerStore \/ LoggerWake

JoinNext == ProducerTask \/ ConsumerTask \/ LoggerTask

FairSpec ==
    /\ JoinInit
    /\ [][JoinNext]_vars
    /\ WF_vars(ProducerTask)
    /\ WF_vars(ConsumerTask)
    /\ WF_vars(LoggerTask)


\* ========================================================================
\* Properties
\* ========================================================================
IsPrefix(s, t) == Len(s) <= Len(t) /\ SubSeq(t, 1, Len(s)) = s

\* Transactions behind the records persisted so far.
StoredTx == [i \in 1..Len(storage) |-> storage[i].inferred_transaction.transaction]

Errs == {"Err_Inference", "Err_Write", "Err_Read", "Err_Buffer_Full",
         "Err_Write_CapacityExceeded", "Err_Write_Unavailable"}

\* C1 (BufSpec) -- FIFO: for each concurrent buffer, after any interleaving of
\* write_batch, read_batch and close calls, the concatenation of the batches
\* returned by successful reads is a prefix of the concatenation of the
\* batches accepted by successful writes, and the two are equal whenever the
\* queue is empty.
C1_Fifo ==
    /\ IsPrefix(hist.read1, hist.written1)
    /\ buf1.data = <<>> => hist.read1 = hist.written1
    /\ IsPrefix(hist.read2, hist.written2)
    /\ buf2.data = <<>> => hist.read2 = hist.written2

\* Two reads have returned data between writes, and items are still queued
\* in the closed buffer.
C1_Witness ==
    /\ target = 2
    /\ Len(reader.results) = 2
    /\ Len(hist.read2) >= 2
    /\ buf2.data # <<>>
    /\ buf2.closed

\* C2 (Spec) -- Cascading shutdown drain: Consumer.run receives Closed from a
\* Buffer1 read only after every transaction accepted by a Buffer1 write has
\* been returned by an earlier read; likewise Logger.run and Buffer2.
C2_ClosedOnlyAfterDrain ==
    /\ "consumer" \in hist.closed_seen => hist.read1 = hist.written1
    /\ "logger" \in hist.closed_seen => hist.read2 = hist.written2

\* Both stages have stopped on Closed after two transactions went through.
C2_Witness ==
    /\ hist.closed_seen = {"consumer", "logger"}
    /\ Len(hist.written1) >= 2
    /\ Len(hist.written2) >= 2

\* The run of run_bench: Producer capped, Consumer and Logger uncapped.
FiniteRun ==
    /\ cfg.p_iterations # None
    /\ cfg.c_iterations = None
    /\ cfg.l_iterations = None

\* C3 (Spec) -- End-to-end count on a clean finite run: Producer capped,
\* Consumer and Logger uncapped, no Model, Buffer2 or Storage call failed:
\* when the join completes, the number of records in Storage equals the
\* number of transactions the Producer wrote to Buffer1, and both buffers
\* are empty and closed.
C3_EndToEndCount ==
    (Joined /\ FiniteRun /\ ~hist.failed) =>
        /\ Len(storage) = Len(hist.written1)
        /\ buf1.data = <<>> /\ buf1.closed
        /\ buf2.data = <<>> /\ buf2.closed

\* A clean finite run has been joined with two records persisted, an alarm
\* having been triggered on the way.
C3_Witness ==
    /\ Joined /\ FiniteRun /\ ~hist.failed
    /\ Len(storage) = 2
    /\ Len(hist.alarms) >= 1

\* C4 (FairSpec) -- Termination of a finite run: with a Producer iteration
\* cap, under the fair cooperative scheduler every run in which no Model,
\* Buffer2 or Storage call fails reaches the state in which the three joined
\* tasks have all returned Ok, with both buffers closed and drained.
C4_Termination ==
    FiniteRun ~>
        \/ hist.failed
        \/ /\ Joined
           /\ producer.result = "Ok" /\ consumer.result = "Ok" /\ logger.result = "Ok"
           /\ buf1.closed /\ buf1.data = <<>>
           /\ buf2.closed /\ buf2.data = <<>>

\* The cascade has run to its end on a clean finite run in which the
\* Consumer took the two transactions in two reads.
C4_Witness ==
    /\ FiniteRun /\ ~hist.failed
    /\ Joined
    /\ PipelineResult = "Ok"
    /\ Len(storage) = 2
    /\ consumer.count = 2

\* C5 (Spec) -- Cancellation completes the cascade: when ctrl_c fires while
\* the pipeline runs, the program returns success only after Consumer.run
\* has returned, Buffer2 has been closed and Logger.run has returned.
C5_CancelCompletesCascade ==
    (MainReturned /\ cancelled) =>
        /\ consumer.pc = "done"
        /\ buf2.closed
        /\ logger.pc = "done"

\* C6 (Spec) -- No loss on cancellation: once the program has returned after
\* a cancellation, and no Model, Buffer2 or Storage call failed, every
\* transaction a successful write put into Buffer1 has been written to
\* Storage.
C6_NoLossOnCancel ==
    (MainReturned /\ cancelled /\ ~hist.failed) => StoredTx = hist.written1

\* C7 (FairSpec) -- A failed stage surfaces: whatever the configuration, if
\* Consumer.run or Logger.run has returned a typed error, the join eventually
\* completes and returns an error.
C7_FailureSurfaces ==
    (consumer.result \in Errs \/ logger.result \in Errs) ~>
        (Joined /\ PipelineResult \in Errs)

\* C8 (BufSpec) -- Yield-on-empty (safety): a turn of read_batch on an open
\* empty buffer returns nothing (neither Closed nor a batch), leaves the queue
\* and the closed flag unchanged and suspends at yield_now; a read returns
\* only from a buffer that a write has made non-empty or that was closed, and
\* never with an empty batch.
C8_YieldOnEmpty ==
    [][ /\ (reader' # reader /\ TargetBuf.data = <<>> /\ ~TargetBuf.closed) =>
              /\ reader'.pc = "yield"
              /\ reader'.results = reader.results
              /\ reader'.idx = reader.idx
              /\ TargetBuf' = TargetBuf
        /\ Len(reader'.results) > Len(reader.results) =>
              /\ TargetBuf.data # <<>> \/ TargetBuf.closed
              /\ LET last == reader'.results[Len(reader'.results)]
                 IN  last.res = "Ok" => last.batch # <<>>
      ]_vars

\* The reader is suspended in read_batch on an open, empty buffer to which
\* the writer has already written an empty batch.
C8_Witness ==
    /\ reader.pc = "yield"
    /\ TargetBuf.data = <<>>
    /\ ~TargetBuf.closed
    /\ writer.idx > 1

\* Scenario S6 / yield_unblocks_read: one read_batch(1) joined with one
\* write_batch of a single item over an empty open buffer.
S6 ==
    /\ writer.script = <<[op |-> "write", size |-> 1]>>
    /\ reader.script = <<1>>

\* C9 (BufFairSpec) -- Yield-on-empty (liveness): in scenario S6, in every
\* scheduling order the read eventually returns exactly the written item, and
\* Closed is never observed.
C9_YieldLiveness ==
    /\ S6 ~> /\ Len(TargetWritten) = 1
             /\ reader.results = <<[res |-> "Ok", batch |-> TargetWritten]>>
    /\ [](S6 => "reader" \notin hist.closed_seen)

\* In S6 the reader was polled first and has yielded; the writer has since
\* appended its item.
C9_Witness ==
    /\ S6
    /\ reader.pc = "yield"
    /\ Len(TargetBuf.data) = 1

\* C10 (Spec) -- No borrow across a yield: at every suspension point of every
\* task no borrow of a concurrent buffer's RefCell is live, and no task has
\* hit a re-entrant borrow panic.
C10_NoBorrowAcrossYield ==
    /\ ~buf1.borrow
    /\ ~buf2.borrow
    /\ ~Panicked

\* Consumer and Logger are both suspended at yield_now inside read_batch
\* while the Producer sleeps after a write.
C10_Witness ==
    /\ consumer.pc = "yield"
    /\ logger.pc = "yield"
    /\ producer.pc = "sleep"
    /\ buf1.data # <<>>

\* A call of the writer (reader) has returned in this step.
WriterReturned == Len(writer'.results) > Len(writer.results)

ReaderReturned == Len(reader'.results) > Len(reader.results)

LastResult(caller) == caller.results[Len(caller.results)]

\* C11 (BufSpec) -- Closed is final for data: on a closed concurrent buffer
\* every write_batch returns Closed and leaves the queue unchanged; items
\* queued before the close remain readable; once a read has returned Closed
\* every later read returns Closed.
C11_ClosedIsFinal ==
    [][ /\ (WriterReturned /\ writer.script[writer.idx].op = "write"
                /\ TargetBuf.closed) =>
              /\ LastResult(writer') = "Closed"
              /\ TargetBuf' = TargetBuf
        /\ (ReaderReturned /\ TargetBuf.closed /\ TargetBuf.data # <<>>) =>
              /\ LastResult(reader').res = "Ok"
              /\ IsPrefix(LastResult(reader').batch, TargetBuf.data)
              /\ LastResult(reader').batch # <<>>
        /\ (ReaderReturned
                /\ \E i \in 1..Len(reader.results) : reader.results[i].res = "Closed") =>
              LastResult(reader').res = "Closed"
      ]_vars

\* The writer wrote, closed and was then refused; the reader drained what was
\* queued and then saw Closed.
C11_Witness ==
    /\ writer.results = <<"Ok", "Ok", "Closed">>
    /\ Len(TargetWritten) >= 1
    /\ reader.results = <<[res |-> "Ok", batch |-> TargetWritten],
                          [res |-> "Closed", batch |-> <<>>]>>

\* Calls of close() the writer has made so far.
Closes == {i \in 1..Len(writer.results) : writer.script[i].op = "close"}

\* C12 (BufSpec) -- Buffer state machine: a concurrent buffer is open until
\* the first close(); its closed flag never goes back from true to false;
\* close() never touches the queue and changes nothing when the buffer is
\* already closed.
C12_OpenToClosedOnly ==
    /\ [](TargetBuf.closed <=> Closes # {})
    /\ [][ /\ TargetBuf.closed => TargetBuf'.closed
           /\ (WriterReturned /\ writer.script[writer.idx].op = "close") =>
                 /\ LastResult(writer') = "Ok"
                 /\ TargetBuf'.closed
                 /\ TargetBuf'.data = TargetBuf.data
                 /\ TargetBuf.closed => TargetBuf' = TargetBuf
         ]_vars

\* close() has been called twice on a buffer holding data.
C12_Witness ==
    /\ Cardinality(Closes) = 2
    /\ TargetBuf.closed
    /\ TargetBuf.data # <<>>

Min(a, b) == IF a < b THEN a ELSE b

\* C13 (BufSpec) -- Read size: read_batch(max) on a non-empty concurrent
\* buffer, open or closed, returns in its first turn, with the first
\* min(max, len) >= 1 items of the queue in order; exactly those items are
\* removed and the rest of the queue keeps its order.
C13_ReadSize ==
    [][ (reader' # reader /\ TargetBuf.data # <<>>) =>
            LET max == reader.script[reader.idx]
                len == Len(TargetBuf.data)
                count == Min(max, len)
            IN  /\ ReaderReturned
                /\ count >= 1
                /\ LastResult(reader') =
                      [res |-> "Ok", batch |-> SubSeq(TargetBuf.data, 1, count)]
                /\ TargetBuf'.data = SubSeq(TargetBuf.data, count + 1, len)
                /\ TargetBuf'.closed = TargetBuf.closed
      ]_vars

\* A read(2) took the single queued item, and a later read(2) took two items
\* of a longer queue and left the rest.
C13_Witness ==
    /\ reader.script = <<2, 2>>
    /\ Len(reader.results) = 2
    /\ reader.results[1].res = "Ok" /\ Len(reader.results[1].batch) = 1
    /\ reader.results[2].res = "Ok" /\ Len(reader.results[2].batch) = 2
    /\ TargetBuf.data # <<>>

\* The infer call that returned last, when it returned Ok.
InferOk == inferrer.last.res = "Ok"

\* C14 (ModSpec) -- Count and order preservation: a successful infer, on the
\* empty batch too, returns one record per input transaction, the i-th
\* wrapping the i-th input unchanged, and has called classify exactly once
\* for each input, in input order.
C14_CountAndOrder ==
    InferOk =>
        LET call == inferrer.last
        IN  /\ Len(call.output) = Len(call.batch)
            /\ \A i \in 1..Len(call.batch) : call.output[i].transaction = call.batch[i]
            /\ [i \in 1..Len(call.trace) |-> call.trace[i].tx] = call.batch

\* An infer of the empty batch has returned Ok, then an infer of two
\* transactions.
C14_Witness ==
    /\ InferOk
    /\ Len(inferrer.returned) = 2
    /\ inferrer.returned[1] = [res |-> "Ok", size |-> 0, labels |-> {}]
    /\ Len(inferrer.last.output) = 2

\* C15 (ModSpec) -- Version snapshot: every record one infer call produces
\* carries the model_name and model_version read from the model when the
\* call started, also when a switch_version returned between two classify
\* calls of that infer.
C15_VersionSnapshot ==
    /\ \A i \in 1..Len(inferrer.results) :
          /\ inferrer.results[i].model_name = inferrer.model_name
          /\ inferrer.results[i].model_version = inferrer.model_version
    /\ InferOk =>
          \A i \in 1..Len(inferrer.last.output) :
             /\ inferrer.last.output[i].model_name = inferrer.last.model_name
             /\ inferrer.last.output[i].model_version = inferrer.last.model_version

\* A switch to the other version returned between the two classify calls of
\* an infer that has returned Ok.
C15_Witness ==
    /\ InferOk
    /\ Len(inferrer.last.output) = 2
    /\ inferrer.last.trace[1].requested = inferrer.last.start
    /\ inferrer.last.trace[2].requested # inferrer.last.start

\* Version strings and fraud rates (in hundredths) of the two versions.
StringFor(version) == IF version = "N" THEN "4" ELSE "3"

RateOf(version) == IF version = "N" THEN 4 ELSE 3

C17_SwitchBetweenCalls ==
    /\ inferrer.pc = "classify" => inferrer.model_version = StringFor(inferrer.start)
    /\ InferOk =>
          /\ \A i \in 1..Len(inferrer.last.output) :
                inferrer.last.output[i].model_version = StringFor(inferrer.last.start)
          /\ switcher.calls = 0 =>
                inferrer.returned[Len(inferrer.returned)].labels \subseteq {"4"}

\* S5: all records of a first infer carry "4", one switch to NMinus1 has
\* returned, all records of a second infer carry "3".
C17_Witness ==
    /\ switcher.calls = 1
    /\ Len(inferrer.returned) = 2
    /\ inferrer.returned[1].res = "Ok" /\ inferrer.returned[1].labels = {"4"}
    /\ inferrer.returned[2].res = "Ok" /\ inferrer.returned[2].labels = {"3"}
    /\ \A i \in 1..Len(inferrer.last.trace) : inferrer.last.trace[i].requested = "NMinus1"

\* ------------------------------------------------------------------------
\* Consumer::consume_once and Consumer::run
\* ------------------------------------------------------------------------
\* The step on which buf2.write_batch answers and consume_once returns.
ConsumeOnceReturns == consumer.pc = "write" /\ consumer'.pc # "write"

\* consume_once has returned Ok: run sleeps, or stops on its iteration limit.
ReturnedOk == consumer.pc = "sleep" \/ (consumer.pc = "done" /\ consumer.result = "Ok")

\* Ids of the records with predicted_fraud, in batch order.
FraudIds(inferred) ==
    LET fraud == SelectSeq(inferred, LAMBDA rec : rec.predicted_fraud)
    IN  [i \in 1..Len(fraud) |-> fraud[i].transaction.id]

TriggeredIds(triggered) == [i \in 1..Len(triggered) |-> triggered[i].id]

FailedCalls(triggered) == Cardinality({i \in 1..Len(triggered) : ~triggered[i].ok})

\* Whether the Buffer2 adapter takes the batch.
Buffer2Accepts(b2, batch) ==
    IF IsInMemoryBuffer2(b2)
    THEN Len(b2.data) + Len(batch) <= b2.capacity
    ELSE ~b2.closed

\* C18, as stated (ConSpec) -- in one consume_once whose inferred batch has k
\* fraudulent records, alarm.trigger is invoked exactly k times, once per
\* fraudulent record, whatever invocations fail, and consume_once then
\* returns Ok with a failure list as long as the number of failed invocations.
C18_AlarmsThenOk ==
    [][ConsumeOnceReturns =>
          /\ TriggeredIds(consumer.triggered) = FraudIds(consumer.results)
          /\ ReturnedOk'
          /\ Len(consumer.alarm_errors) = FailedCalls(consumer.triggered)]_vars

\* C18, amended (ConSpec) -- alarm.trigger is invoked exactly once per
\* fraudulent record of the inferred batch, in batch order, whatever
\* invocations fail, and the failure list holds one entry per failed
\* invocation; consume_once returns it in Ok when Buffer2 takes the batch,
\* and returns the Write error instead when Buffer2 answers Closed or Full.
C18_BestEffortAlarms ==
    [][ConsumeOnceReturns =>
          /\ TriggeredIds(consumer.triggered) = FraudIds(consumer.results)
          /\ Len(consumer.alarm_errors) = FailedCalls(consumer.triggered)
          /\ IF Buffer2Accepts(buf2, consumer.results)
             THEN ReturnedOk'
             ELSE consumer'.pc = "done" /\ consumer'.result = "Err_Write"]_vars

\* Two fraudulent records; the first trigger failed, the second was still
\* made; one failure is collected and Buffer2 is about to take the batch.
C18_Witness ==
    /\ consumer.pc = "write"
    /\ Len(consumer.results) = 2
    /\ \A i \in 1..2 : consumer.results[i].predicted_fraud
    /\ Len(consumer.triggered) = 2
    /\ ~consumer.triggered[1].ok /\ consumer.triggered[2].ok
    /\ Len(consumer.alarm_errors) = 1
    /\ Buffer2Accepts(buf2, consumer.results)

\* C19 (ConSpec) -- Full batch reaches Buffer2: whenever consume_once returns
\* Ok, Buffer2 has been extended by exactly the records infer returned, all of
\* them and in the same order, fraudulent or not, alarm failures or not; and
\* with no fraudulent record alarm.trigger was not invoked.
C19_FullBatchReachesBuffer2 ==
    [][(ConsumeOnceReturns /\ ReturnedOk') =>
          /\ buf2'.data = buf2.data \o consumer.results
          /\ FraudIds(consumer.results) = <<>> => consumer.triggered = <<>>]_vars

\* A batch of two records, none fraudulent, has been consumed: both are in
\* Buffer2 in order and no alarm was ever triggered.
C19_Witness ==
    /\ ReturnedOk
    /\ Len(buf2.data) = 2
    /\ \A i \in 1..2 : /\ ~buf2.data[i].predicted_fraud
                       /\ buf2.data[i].transaction = Transaction(i)
    /\ hist.alarms = <<>>

\* C20 (ConSpec) -- Consumer.run keeps input-closed and output-closed apart:
\* run returns Ok when the Buffer1 read answers Closed, Err(Inference) when
\* the Modelizer fails, Err(Write) when the Buffer2 write answers Closed or
\* Full; no alarm.trigger outcome ends the loop: after the alarms the write is
\* made and, if Buffer2 takes the batch, run goes on to its next iteration
\* (or stops with Ok on its iteration limit).
C20_RunKeepsClosedApart ==
    [][/\ (consumer.pc = "consume_once" /\ consumer'.pc = "done") =>
             /\ buf1.data = <<>> /\ buf1.closed
             /\ consumer'.result = "Ok"
       /\ (consumer.pc = "classify" /\ consumer'.pc = "done") =>
             consumer'.result = "Err_Inference"
       /\ consumer.pc = "alarm" =>
             consumer'.pc \in {"alarm", "write"} /\ consumer'.result = "None"
       /\ ConsumeOnceReturns =>
             IF ~Buffer2Accepts(buf2, consumer.results)
             THEN consumer'.pc = "done" /\ consumer'.result = "Err_Write"
             ELSE IF LimitReached(cfg.c_iterations, consumer.count + 1)
                  THEN consumer'.pc = "done" /\ consumer'.result = "Ok"
                  ELSE consumer'.pc = "sleep" /\ consumer'.result = "None"]_vars

\* run went through one iteration in which an alarm was triggered, and its
\* second write was refused by the full InMemoryBuffer2: Err(Write).
C20_Witness ==
    /\ consumer.pc = "done"
    /\ consumer.result = "Err_Write"
    /\ consumer.count = 1
    /\ hist.alarms # <<>>
    /\ IsInMemoryBuffer2(buf2)
    /\ Len(buf2.data) = SmallCapacity

\* ------------------------------------------------------------------------
\* Producer::run
\* ------------------------------------------------------------------------
\* Whether the Buffer1 adapter takes a batch.
Buffer1Accepts(b1) == ~IsFullBuffer(b1) /\ ~b1.closed

\* C21 (ProSpec) -- Producer.run stop rules: run returns Ok, having written
\* nothing more, when a write answers Closed, and returns Ok when a write is
\* taken and the iteration cap is reached; a write that answers Full ends the
\* loop with ProducerError::Buffer carrying Full; run goes on (sleeps) only
\* after a write that was taken below the cap; once run has returned no
\* batch is written.
C21_ProducerStopRules ==
    [][/\ (producer.pc = "produce_once" /\ producer'.pc = "done") =>
             IF IsFullBuffer(buf1)
             THEN /\ producer'.result = "Err_Buffer_Full"
                  /\ hist'.written1 = hist.written1 /\ buf1'.data = buf1.data
             ELSE IF buf1.closed
             THEN /\ producer'.result = "Ok"
                  /\ producer'.count = producer.count
                  /\ hist'.written1 = hist.written1 /\ buf1'.data = buf1.data
             ELSE /\ producer'.result = "Ok"
                  /\ LimitReached(cfg.p_iterations, producer.count + 1)
                  /\ producer'.count = producer.count + 1
       /\ (producer.pc = "produce_once" /\ producer'.pc = "sleep") =>
             /\ Buffer1Accepts(buf1)
             /\ ~LimitReached(cfg.p_iterations, producer.count + 1)
       /\ producer.pc = "done" =>
             /\ producer' = producer
             /\ hist'.written1 = hist.written1
             /\ Len(buf1'.data) <= Len(buf1.data)]_vars

\* An uncapped Producer wrote one batch, Buffer1 was then closed by its
\* holder, and run returned Ok on the refused second write.
C21_Witness ==
    /\ cfg.p_iterations = None
    /\ producer.pc = "done"
    /\ producer.result = "Ok"
    /\ producer.count = 1
    /\ hist.written1 # <<>>

\* The value of an iteration cap that is set.
Cap(iterations) == CHOOSE max \in iterations : TRUE

\* C22 (Spec) -- Iteration cap is exact: with a cap n accepted by the builder
\* and a buffer that neither closes nor fails, Producer.run returns Ok after
\* exactly n batches have been written, Consumer.run after exactly n
\* consume_once calls, Logger.run after exactly n log_once calls.
C22_CapExact ==
    /\ (producer.pc = "done" /\ producer.result = "Ok" /\ cfg.p_iterations # None) =>
          /\ producer.count = Cap(cfg.p_iterations)
          /\ Len(hist.written1) >= Cap(cfg.p_iterations)
          /\ Len(hist.written1) <= Cap(cfg.p_iterations) * N1Max
    /\ (/\ consumer.pc = "done" /\ consumer.result = "Ok"
        /\ cfg.c_iterations # None /\ "consumer" \notin hist.closed_seen) =>
          consumer.count = Cap(cfg.c_iterations)
    /\ (/\ logger.pc = "done" /\ logger.result = "Ok"
        /\ cfg.l_iterations # None /\ "logger" \notin hist.closed_seen) =>
          logger.count = Cap(cfg.l_iterations)

\* ------------------------------------------------------------------------
\* Logger::run and Logger::log_once
\* ------------------------------------------------------------------------
\* C23 (LogSpec) -- Logger.run stop rules: run returns Ok on Closed from a
\* Buffer2 read, and then every record that was put in Buffer2 is in Storage;
\* a Storage failure ends the loop with LoggerError::Write carrying that
\* failure (CapacityExceeded from InMemoryStorage, Unavailable from
\* SqliteStorage); after run has returned Buffer2 is not read again.
C23_LoggerStopRules ==
    [][/\ (logger.pc \in {"log_once", "yield"} /\ logger'.pc = "done") =>
             /\ logger'.result = "Ok"
             /\ buf2.closed /\ buf2.data = <<>>
             /\ storage = Persisted(hist.written2)
       /\ (logger.pc = "store" /\ logger'.pc # "store") =>
             \/ /\ storage' = storage \o logger.pending
                /\ cfg.storage = "InMemoryStorage" =>
                      Len(storage) + Len(logger.pending) <= cfg.capacity
                /\ IF LimitReached(cfg.l_iterations, logger.count + 1)
                   THEN logger'.pc = "done" /\ logger'.result = "Ok"
                   ELSE logger'.pc = "sleep" /\ logger'.result = "None"
             \/ /\ cfg.storage = "InMemoryStorage"
                /\ Len(storage) + Len(logger.pending) > cfg.capacity
                /\ logger'.pc = "done"
                /\ logger'.result = "Err_Write_CapacityExceeded"
             \/ /\ cfg.storage = "SqliteStorage"
                /\ logger'.pc = "done"
                /\ logger'.result = "Err_Write_Unavailable"
       /\ logger.pc = "done" =>
             /\ logger' = logger
             /\ hist'.read2 = hist.read2
             /\ buf2'.data = buf2.data]_vars

\* SqliteStorage failed on the batch of the first read: run has returned
\* Err(Write(Unavailable)) and the second record is still in Buffer2.
C23_Witness ==
    /\ logger.pc = "done"
    /\ logger.result = "Err_Write_Unavailable"
    /\ Len(hist.read2) = 1
    /\ Len(buf2.data) = 1

\* The step on which buf2.read_batch returns a batch to log_once.
LogOnceReads == logger.pc \in {"log_once", "yield"} /\ logger'.pc = "store"

\* C24 (LogSpec) -- Logger transform: the batch log_once hands to Storage has
\* one PendingTransaction per record just read from Buffer2, in the same
\* order, each wrapping its record unchanged with is_reviewed = false and
\* actual_fraud absent; it is handed over whole in one write_batch call, after
\* which log_once holds nothing more to write.
C24_LoggerTransform ==
    [][/\ LogOnceReads =>
             /\ Len(logger'.pending) >= 1
             /\ buf2.data = [i \in 1..Len(logger'.pending) |->
                               logger'.pending[i].inferred_transaction] \o buf2'.data
             /\ \A i \in 1..Len(logger'.pending) :
                   logger'.pending[i] =
                      [inferred_transaction |-> buf2.data[i],
                       is_reviewed |-> FALSE, actual_fraud |-> "None"]
       /\ (logger.pc = "store" /\ logger'.pc # "store") =>
             /\ logger'.pending = <<>>
             /\ logger'.result \in {"None", "Ok"} => storage' = storage \o logger.pending
             /\ logger'.pc \in {"sleep", "done"}]_vars

\* Two records were read in one log_once and stored by its one write_batch:
\* Storage holds them in order, unreviewed, without actual_fraud.
C24_Witness ==
    /\ logger.count = 1
    /\ Len(hist.read2) = 2
    /\ Len(storage) = 2
    /\ \A i \in 1..2 :
          storage[i] = [inferred_transaction |-> hist.read2[i],
                        is_reviewed |-> FALSE, actual_fraud |-> "None"]

\* ------------------------------------------------------------------------
\* InMemoryBuffer2 and InMemoryStorage
\* ------------------------------------------------------------------------
\* The step of a write_batch call on one of the bounded adapters.
CapWrites == Len(writer'.results) = Len(writer.results) + 1

\* C25 (CapSpec) -- Capacity atomicity: a write_batch on the InMemoryBuffer2
\* (resp. the InMemoryStorage) with current_count + batch_len > capacity
\* returns Full (resp. CapacityExceeded) carrying the configured capacity and
\* leaves the adapter unchanged; a write that fits returns Ok and appends the
\* whole batch; the stored count never exceeds the capacity.
C25_CapacityAtomicity ==
    /\ [](Len(buf2.data) <= cfg.capacity /\ Len(storage) <= cfg.capacity)
    /\ [][CapWrites =>
            LET call == writer'.results[Len(writer'.results)]
            IN  IF call.port = "Buffer2"
                THEN /\ storage' = storage
                     /\ IF Len(buf2.data) + Len(call.batch) > cfg.capacity
                        THEN /\ call.returned = [res |-> "Full", capacity |-> cfg.capacity]
                             /\ buf2' = buf2
                        ELSE /\ call.returned = [res |-> "Ok"]
                             /\ buf2'.data = buf2.data \o call.batch
                ELSE /\ buf2' = buf2
                     /\ IF Len(storage) + Len(call.batch) > cfg.capacity
                        THEN /\ call.returned = [res |-> "CapacityExceeded",
                                                 capacity |-> cfg.capacity]
                             /\ storage' = storage
                        ELSE /\ call.returned = [res |-> "Ok"]
                             /\ storage' = storage \o call.batch]_vars

\* The InMemoryBuffer2 is filled to its capacity and has refused a batch with
\* Full{capacity}; the InMemoryStorage has refused one with CapacityExceeded.
C25_Witness ==
    /\ cfg.capacity = SmallCapacity
    /\ Len(buf2.data) = SmallCapacity
    /\ \E i \in 1..Len(writer.results) :
          /\ writer.results[i].port = "Buffer2"
          /\ writer.results[i].returned = [res |-> "Full", capacity |-> SmallCapacity]
    /\ \E j \in 1..Len(writer.results) :
          /\ writer.results[j].port = "Storage"
          /\ writer.results[j].returned.res = "CapacityExceeded"


\* ------------------------------------------------------------------------
\* C26: two instances built with the same seed (and the same batch-size
\* maximum) and given the same calls return the same values, call by call:
\* the same batches for two Producers, the same requested sizes for two
\* Consumers, the same classifications for two DemoModels.
\* ------------------------------------------------------------------------
SameConfig ==
    /\ twins # NoTwins
    /\ twins.inst[1].seed # None
    /\ twins.inst[1].seed = twins.inst[2].seed
    /\ twins.inst[1].n_max = twins.inst[2].n_max

BatchInHand ==
    /\ consumer.pc \in {"classify", "alarm", "write"} => Len(consumer.batch) >= 1
    /\ consumer.pc = "yield" => consumer.n2 \in 1..N2Max
    /\ logger.pc = "store" => Len(logger.pending) >= 1
    /\ logger.pc = "yield" => logger.n3 \in 1..N3Max

BatchSizes ==
    /\ Len(buf1'.data) > Len(buf1.data) =>
          Len(buf1'.data) - Len(buf1.data) \in 1..N1Max
    /\ hist'.written1 # hist.written1 =>
          Len(hist'.written1) - Len(hist.written1) \in 1..N1Max
    /\ (consumer.pc \in {"consume_once", "yield"} /\ consumer'.pc = "classify") =>
          \E n2 \in 1..N2Max :
             /\ consumer.pc = "yield" => n2 = consumer.n2
             /\ Len(consumer'.batch) = Min(n2, Len(buf1.data))
             /\ Len(consumer'.batch) >= 1
             /\ consumer'.batch = SubSeq(buf1.data, 1, Len(consumer'.batch))
    /\ (logger.pc \in {"log_once", "yield"} /\ logger'.pc = "store") =>
          \E n3 \in 1..N3Max :
             /\ logger.pc = "yield" => n3 = logger.n3
             /\ Len(logger'.pending) = Min(n3, Len(buf2.data))
             /\ Len(logger'.pending) >= 1
             /\ logger'.pending = Persisted(SubSeq(buf2.data, 1, Len(logger'.pending)))

C27_BatchSizeBounds == []BatchInHand /\ [][BatchSizes]_vars

\* The Consumer holds a batch smaller than what Buffer1 offered (n2 was the
\* limit) after the Logger has read records from Buffer2.
C27_Witness ==
    /\ consumer.pc = "classify"
    /\ Len(consumer.batch) = 1
    /\ Len(buf1.data) >= 1
    /\ Len(hist.read2) >= 1


\* ------------------------------------------------------------------------
\* C28: every record in Buffer2, read from Buffer2 or stored wraps a
\* transaction that the Consumer has already removed from Buffer1, and no
\* transaction is in Buffer1 and, as a record, downstream at the same time.
\* ------------------------------------------------------------------------
InBuffer1 == {buf1.data[i].id : i \in 1..Len(buf1.data)}

RecordIds(records) == {records[i].transaction.id : i \in 1..Len(records)}

Downstream ==
    RecordIds(buf2.data) \cup RecordIds(hist.read2)
        \cup {storage[i].inferred_transaction.transaction.id : i \in 1..Len(storage)}

RemovedFromBuffer1 == {hist.read1[i].id : i \in 1..Len(hist.read1)}

C28_CrossBufferOrdering ==
    /\ Downstream \subseteq RemovedFromBuffer1
    /\ InBuffer1 \cap Downstream = {}

\* Buffer1 holds a transaction while Buffer2 holds the record of an earlier one.
C28_Witness ==
    /\ \E i \in 1..Len(buf1.data) : IsFollowed(buf1.data[i])
    /\ buf2.data # <<>>


\* ------------------------------------------------------------------------
\* C29: Buffer1 is closed only by the producer-side wiring, when
\* Producer.run returns, or by the ctrl_c arm; Buffer2 is closed only by the
\* consumer-side wiring, when Consumer.run returns.  No step of the Consumer
\* closes Buffer1, no step of the Logger closes Buffer2, and the ctrl_c arm
\* leaves Buffer2 alone.  A closed buffer stays closed.
\* ------------------------------------------------------------------------
ProducerRunReturned == producer.pc \notin {"done", "panic"} /\ producer'.pc = "done"

ConsumerRunReturned == consumer.pc \notin {"done", "panic"} /\ consumer'.pc = "done"

CtrlC == ~cancelled /\ cancelled'

OnlyUpstreamCloses ==
    /\ buf1.closed # buf1'.closed =>
          /\ buf1'.closed
          /\ ProducerRunReturned \/ CtrlC
    /\ buf2.closed # buf2'.closed =>
          /\ buf2'.closed
          /\ ConsumerRunReturned
          /\ ~CtrlC
    /\ CtrlC => buf2' = buf2
    /\ consumer' # consumer => buf1'.closed = buf1.closed
    /\ logger' # logger => buf2'.closed = buf2.closed

C29_OnlyUpstreamCloses == [][OnlyUpstreamCloses]_vars

\* The cascade has run to its end without ctrl_c: both buffers are closed and
\* both readers have seen it.
C29_Witness ==
    /\ ~cancelled
    /\ buf1.closed
    /\ buf2.closed
    /\ hist.closed_seen = {"consumer", "logger"}


\* ------------------------------------------------------------------------
\* C30: switch_model_version hands the requested version to
\* modelizer.switch_version exactly once and changes nothing of the Consumer;
\* a failing switch comes back as ConsumerError::Inference; consume_once and
\* run never switch the version themselves, and a consume_once that has read
\* its batch has called infer exactly once (none before the read, never two).
\* ------------------------------------------------------------------------
InferOncePerConsumeOnce ==
    /\ consumer.pc \in {"classify", "alarm", "write"} => consumer.infer_calls = 1
    /\ consumer.pc \in {"consume_once", "yield", "sleep", "done"} =>
          consumer.infer_calls = 0

SwitchForwarded ==
    /\ switcher' # switcher =>
          LET call == switcher'.returned[Len(switcher'.returned)]
          IN  /\ Len(switcher'.returned) = Len(switcher.returned) + 1
              /\ switcher'.forwarded = Append(switcher.forwarded, call.version)
              /\ call.res \in {"Ok", "Err_Inference"}
              /\ call.res = "Ok" => current_version' = call.version
              /\ call.res = "Err_Inference" => current_version' = current_version
              /\ UNCHANGED <<cfg, consumer, buf1, buf2, hist>>
    /\ consumer' # consumer =>
          /\ UNCHANGED <<switcher, current_version>>
          /\ consumer'.infer_calls <= 1

PipelineStarted ==
    \/ producer # Producer_new
    \/ consumer # Consumer_new
    \/ logger # Logger_new

C31_ValidatedAtBuild ==
    /\ \A i \in 1..Len(builder.returned) :
          IF builder.n_max[i] = 0
          THEN builder.returned[i] = [res |-> "InvalidConfig", config |-> None]
          ELSE builder.returned[i] = [res |-> "Ok", config |-> Some(builder.n_max[i])]
    /\ PipelineStarted => \A i \in 1..Len(Components) : builder.n_max[i] >= 1
    /\ \A r \in {producer.result, consumer.result, logger.result} :
          r \in {"None", "Ok"} \cup Errs

\* One build has succeeded and the next has returned InvalidConfig.
C31_Witness ==
    /\ Len(builder.returned) = 2
    /\ builder.returned[1].res = "Ok"
    /\ builder.returned[2].res = "InvalidConfig"


\* ------------------------------------------------------------------------
\* C32: conservation.  While no Model, Buffer2 or Storage call has failed,
\* the transactions Buffer1 accepted are, each exactly once and in this
\* order: those stored, the batch the Logger holds, those in Buffer2, the
\* batch the Consumer holds, those in Buffer1; and the number stored is the
\* number the Logger read from Buffer2 less the batch it holds.
\* ------------------------------------------------------------------------
TransactionsOf(records) == [i \in 1..Len(records) |-> records[i].transaction]

LoggerInFlight ==
    [i \in 1..Len(logger.pending) |-> logger.pending[i].inferred_transaction.transaction]

ConsumerInFlight == Followed(consumer.batch)

C32_Conservation ==
    ~hist.failed =>
        /\ hist.written1 = StoredTx \o LoggerInFlight \o TransactionsOf(buf2.data)
                               \o ConsumerInFlight \o Followed(buf1.data)
        /\ Len(storage) = Len(hist.read2) - Len(logger.pending)

\* The Consumer and the Logger each hold a batch at the same moment.
C32_Witness ==
    /\ ~hist.failed
    /\ Len(hist.written1) >= 2
    /\ ConsumerInFlight # <<>>
    /\ LoggerInFlight # <<>>

\* ------------------------------------------------------------------------
\* C33: the transaction ids written to Storage are, in order, a prefix of
\* the ids the Producer wrote to Buffer1, whatever sizes the Consumer and
\* the Logger draw and whether or not a call has failed.
\* ------------------------------------------------------------------------
IdsOf(transactions) == [i \in 1..Len(transactions) |-> transactions[i].id]

C33_EndToEndOrder == IsPrefix(IdsOf(StoredTx), IdsOf(hist.written1))

\* Two records have been stored by two calls of the Logger, out of two
\* transactions the Producer wrote.
C33_Witness ==
    /\ Len(storage) = 2
    /\ logger.count = 2
    /\ IdsOf(StoredTx) = IdsOf(hist.written1)


\* ------------------------------------------------------------------------
\* C34: whenever Consumer.run has returned, with Ok or with an error,
\* Buffer2 is closed, and Logger.run then eventually returns.
\* ------------------------------------------------------------------------
ConsumerExited == consumer.pc = "done"

AllWrittenStored == storage = Persisted(hist.written2)

\* As stated: Logger.run eventually returns Ok with every record that the
\* Consumer wrote to Buffer2 in Storage.
C34_LoggerReturnsOk ==
    ConsumerExited ~> (logger.pc = "done" /\ logger.result = "Ok" /\ AllWrittenStored)

\* Amended: Logger.run eventually returns, with Ok and every record that the
\* Consumer wrote in Storage, or else with the error of a Storage write.
C34_Buffer2ClosedOnExit ==
    /\ [](ConsumerExited => buf2.closed)
    /\ ConsumerExited ~>
          /\ logger.pc = "done"
          /\ \/ logger.result = "Ok" /\ AllWrittenStored
             \/ logger.result \in {"Err_Write_CapacityExceeded", "Err_Write_Unavailable"}

\* Consumer.run has returned an error after writing to Buffer2, and
\* Logger.run has returned Ok with all of it stored.
C34_Witness ==
    /\ ConsumerExited
    /\ consumer.result \in Errs
    /\ hist.written2 # <<>>
    /\ logger.pc = "done" /\ logger.result = "Ok"
    /\ AllWrittenStored


\* ------------------------------------------------------------------------
\* C35: in the wired pipeline Buffer2 is open in every state in which
\* Consumer.run has not returned, every Buffer2 write of the Consumer is
\* accepted, and Consumer.run never returns a write error.
\* ------------------------------------------------------------------------
C35_OutputNeverClosed ==
    /\ [](consumer.pc # "done" => ~buf2.closed)
    /\ [](consumer.result # "Err_Write")
    /\ [][ConsumeOnceReturns =>
            /\ Buffer2Accepts(buf2, consumer.results)
            /\ buf2'.data = buf2.data \o FollowedInferred(consumer.results)]_vars

\* The Consumer is about to write its second batch while Buffer1 is already
\* closed and the Logger is reading.
C35_Witness ==
    /\ consumer.pc = "write"
    /\ consumer.count = 1
    /\ buf1.closed
    /\ ~buf2.closed
    /\ hist.read2 # <<>>


\* ------------------------------------------------------------------------
\* C36: once the join has completed, the pipeline result is Ok exactly when
\* the three runs returned Ok; otherwise it is the error of the most
\* upstream stage that failed, whatever the stages downstream returned.
\* ------------------------------------------------------------------------
C36_PipelineResult ==
    (Joined /\ ~cancelled) =>
        /\ PipelineResult = "Ok" <=>
              (producer.result = "Ok" /\ consumer.result = "Ok" /\ logger.result = "Ok")
        /\ producer.result # "Ok" => PipelineResult = producer.result
        /\ (producer.result = "Ok" /\ consumer.result # "Ok") =>
              PipelineResult = consumer.result
        /\ (producer.result = "Ok" /\ consumer.result = "Ok") =>
              PipelineResult = logger.result
        /\ MainResult = PipelineResult

\* The three runs have all failed; the result is the Producer's error.
C36_Witness ==
    /\ Joined /\ ~cancelled
    /\ producer.result = "Err_Buffer_Full"
    /\ consumer.result = "Err_Inference"
    /\ logger.result = "Err_Write_Unavailable"
    /\ PipelineResult = "Err_Buffer_Full"


\* ------------------------------------------------------------------------
\* C37: when Model.classify fails for a transaction of the batch, whichever
\* it is, consume_once returns ConsumerError::Inference with no output of
\* infer kept, no alarm.trigger was made for the batch, Buffer2 receives
\* nothing, and the transactions of the batch, already removed from Buffer1,
\* are not put back.
\* ------------------------------------------------------------------------
InferenceFails == consumer.pc = "classify" /\ consumer'.pc = "done"

C37_InferenceFailureDropsBatch ==
    [][InferenceFails =>
          /\ consumer'.result = "Err_Inference"
          /\ consumer'.results = <<>>
          /\ consumer.triggered = <<>>
          /\ hist'.alarms = hist.alarms
          /\ buf2'.data = buf2.data
          /\ hist'.written2 = hist.written2
          /\ buf1' = buf1
          /\ \A i \in 1..Len(consumer.batch) :
                \A j \in 1..Len(buf1'.data) : buf1'.data[j] # consumer.batch[i]
          /\ Len(consumer.batch) <= Len(hist.read1)
          /\ consumer.batch = SubSeq(hist.read1,
                                     Len(hist.read1) - Len(consumer.batch) + 1,
                                     Len(hist.read1))]_vars

\* Consumer.run has returned Err(Inference) on a batch of two: both
\* transactions are gone from Buffer1, Buffer2 is empty, no alarm was made.
C37_Witness ==
    /\ consumer.pc = "done" /\ consumer.result = "Err_Inference"
    /\ Len(hist.read1) = 2
    /\ consumer.count = 0
    /\ buf1.data = <<>>
    /\ buf2.data = <<>>
    /\ hist.alarms = <<>>


\* ------------------------------------------------------------------------
\* C38: within one consume_once all the alarm.trigger calls of the batch
\* are made before the batch is written to Buffer2: no fraudulent record is
\* in Buffer2 without its alarm having been attempted, and no alarm call
\* touches Buffer2.  If the write then fails (Full or Closed), consume_once
\* returns ConsumerError::Write with the alarms made and none of the records
\* in Buffer2.
\* ------------------------------------------------------------------------
AlarmAttempted(rec) == \E k \in 1..Len(hist.alarms) : hist.alarms[k] = rec.transaction.id

C38_AlarmsPrecedeWrite ==
    /\ [](\A i \in 1..Len(buf2.data) :
             buf2.data[i].predicted_fraud => AlarmAttempted(buf2.data[i]))
    /\ [][/\ consumer.pc = "alarm" => buf2' = buf2
          /\ ConsumeOnceReturns =>
                /\ TriggeredIds(consumer.triggered) = FraudIds(consumer.results)
                /\ \A i \in 1..Len(consumer.results) :
                      consumer.results[i].predicted_fraud =>
                          AlarmAttempted(consumer.results[i])
                /\ hist'.alarms = hist.alarms
                /\ ~Buffer2Accepts(buf2, consumer.results) =>
                      /\ consumer'.result = "Err_Write"
                      /\ buf2'.data = buf2.data]_vars

\* The write of a batch with a fraudulent record was refused: its alarm has
\* been made, run has returned Err(Write) and Buffer2 holds nothing.
C38_Witness ==
    /\ consumer.pc = "done" /\ consumer.result = "Err_Write"
    /\ hist.alarms # <<>>
    /\ buf2.data = <<>>


\* ------------------------------------------------------------------------
\* C39: on the InMemoryBuffer a read answers Closed exactly when the store
\* is empty and returns data otherwise, also after an earlier read answered
\* Closed; every write is accepted and appended; Consumer.run returns Ok at
\* the first read that finds the store empty, whatever the Producer writes
\* afterwards.
\* ------------------------------------------------------------------------
C39_ClosedIsNotFinal ==
    /\ [](LET r == Buffer1_read_batch(buf1, 1)
          IN  /\ r.res = "Closed" <=> buf1.data = <<>>
              /\ buf1.data # <<>> => (r.res = "Ok" /\ r.batch = <<buf1.data[1]>>))
    /\ [](producer.result \in {"None", "Ok"})
    /\ [][/\ hist'.written1 # hist.written1 =>
                \E size \in 1..N1Max :
                   buf1'.data = buf1.data \o generate_batch(size, nextId)
          /\ (consumer.pc = "consume_once" /\ consumer' # consumer) =>
                IF buf1.data = <<>>
                THEN /\ consumer'.pc = "done" /\ consumer'.result = "Ok"
                     /\ "consumer" \in hist'.closed_seen
                ELSE /\ consumer'.pc = "classify"
                     /\ consumer'.batch # <<>>]_vars

\* Consumer.run has returned Ok on an empty store, and the store now holds
\* what the Producer wrote afterwards: a read would return data again.
C39_Witness ==
    /\ consumer.pc = "done" /\ consumer.result = "Ok"
    /\ "consumer" \in hist.closed_seen
    /\ buf1.data # <<>>
    /\ Buffer1_read_batch(buf1, 1).res = "Ok"
    /\ producer.pc = "done"

====
